---- MODULE Spec2Model ----
(***************************************************************************)
(* GovAssist-AI backend: the form session manager (app/form_manager.py)    *)
(* and the Azure realtime bridge (app/routers/chat.py).                    *)
(*                                                                         *)
(* Python strings are sequences of one-character strings, so that strip,   *)
(* lower, isdigit, split and the marker regular expressions are computed   *)
(* as the code computes them.                                              *)
(***************************************************************************)
EXTENDS Integers, Sequences, FiniteSets, TLC

\* ------------------------------------------------------------ Python values
\* Python's None, a str, an int and a float (kept as its literal).
PyNone == [py |-> "None", v |-> 0]
PyStr(s) == [py |-> "str", v |-> s]
PyInt(n) == [py |-> "int", v |-> n]
PyFloat(s) == [py |-> "float", v |-> s]

\* ------------------------------------------------------------ str methods
Digits == {"0", "1", "2", "3", "4", "5", "6", "7", "8", "9"}

DigitVal(c) ==
    CASE c = "0" -> 0 [] c = "1" -> 1 [] c = "2" -> 2 [] c = "3" -> 3
      [] c = "4" -> 4 [] c = "5" -> 5 [] c = "6" -> 6 [] c = "7" -> 7
      [] c = "8" -> 8 [] c = "9" -> 9

Whitespace == {" ", "\n", "\t"}

\* str.lower() on one character (the letters the model's strings use).
LowerChar(c) ==
    CASE c = "A" -> "a" [] c = "B" -> "b" [] c = "C" -> "c" [] c = "D" -> "d"
      [] c = "E" -> "e" [] c = "F" -> "f" [] c = "G" -> "g" [] c = "H" -> "h"
      [] c = "I" -> "i" [] c = "J" -> "j" [] c = "K" -> "k" [] c = "L" -> "l"
      [] c = "M" -> "m" [] c = "N" -> "n" [] c = "O" -> "o" [] c = "P" -> "p"
      [] c = "Q" -> "q" [] c = "R" -> "r" [] c = "S" -> "s" [] c = "T" -> "t"
      [] c = "U" -> "u" [] c = "V" -> "v" [] c = "W" -> "w" [] c = "X" -> "x"
      [] c = "Y" -> "y" [] c = "Z" -> "z" [] OTHER -> c

Lower(s) == [i \in 1..Len(s) |-> LowerChar(s[i])]

RECURSIVE LStrip(_)
LStrip(s) == IF s # <<>> /\ Head(s) \in Whitespace THEN LStrip(Tail(s)) ELSE s

RECURSIVE RStrip(_)
RStrip(s) ==
    IF s # <<>> /\ s[Len(s)] \in Whitespace
    THEN RStrip(SubSeq(s, 1, Len(s) - 1)) ELSE s

\* str.strip()
Strip(s) == RStrip(LStrip(s))

\* str.isdigit(): non-empty and every character a digit.
IsDigit(s) == s # <<>> /\ \A i \in 1..Len(s) : s[i] \in Digits

\* str.count(c) for a one-character c.
Count(s, c) == Cardinality({i \in 1..Len(s) : s[i] = c})

\* c in s, for a one-character c.
Contains(s, c) == \E i \in 1..Len(s) : s[i] = c

\* str.split(c) for a one-character separator: the parts between separators.
RECURSIVE SplitFrom(_, _, _)
SplitFrom(s, c, cur) ==
    IF s = <<>> THEN <<cur>>
    ELSE IF Head(s) = c THEN <<cur>> \o SplitFrom(Tail(s), c, <<>>)
    ELSE SplitFrom(Tail(s), c, Append(cur, Head(s)))

Split(s, c) == SplitFrom(s, c, <<>>)

\* int(s) for an all-digit s.
RECURSIVE IntOf(_)
IntOf(s) ==
    IF s = <<>> THEN 0
    ELSE 10 * IntOf(SubSeq(s, 1, Len(s) - 1)) + DigitVal(s[Len(s)])

\* float(s) succeeds: [sign] (digits [. [digits]] | . digits) [e [sign] digits],
\* or [sign] inf | infinity | nan (any case).
IsFloatMantissa(m) ==
    LET parts == Split(m, ".") IN
      \/ IsDigit(m)
      \/ /\ Len(parts) = 2
         /\ \/ IsDigit(parts[1]) /\ (parts[2] = <<>> \/ IsDigit(parts[2]))
            \/ parts[1] = <<>> /\ IsDigit(parts[2])

Unsigned(s) == IF s # <<>> /\ Head(s) \in {"+", "-"} THEN Tail(s) ELSE s

IsFloatLiteral(s) ==
    LET u == Lower(Unsigned(s))
        ex == Split(u, "e")
    IN  \/ u \in {<<"i", "n", "f">>, <<"n", "a", "n">>,
                  <<"i", "n", "f", "i", "n", "i", "t", "y">>}
        \/ IsFloatMantissa(u)
        \/ Len(ex) = 2 /\ IsFloatMantissa(ex[1]) /\ IsDigit(Unsigned(ex[2]))

\* ------------------------------------------------------- marker regexes
\* text[i..] starts with lit, ignoring case (re.IGNORECASE).
StartsWithAt(text, i, lit) ==
    /\ i + Len(lit) - 1 <= Len(text)
    /\ \A k \in 1..Len(lit) : LowerChar(text[i + k - 1]) = LowerChar(lit[k])

\* \w: letters, digits and underscore.
IsWordChar(c) ==
    \/ c \in Digits
    \/ c = "_"
    \/ LowerChar(c) \in
         {"a", "b", "c", "d", "e", "f", "g", "h", "i", "j", "k", "l", "m", "n",
          "o", "p", "q", "r", "s", "t", "u", "v", "w", "x", "y", "z"}

\* [^#]
IsNotHash(c) == c # "#"

\* The end of the longest run of characters of class cls ("w" for \w, "v" for
\* [^#]) that starts at i: the position after its last character.
RECURSIVE RunEnd(_, _, _)
RunEnd(text, i, cls) ==
    IF i <= Len(text)
       /\ (IF cls = "w" THEN IsWordChar(text[i]) ELSE IsNotHash(text[i]))
    THEN RunEnd(text, i + 1, cls) ELSE i

L_hashes == <<"#", "#">>
L_form == <<"#", "#", "F", "O", "R", "M", ":">>
L_form_value == <<"#", "#", "F", "O", "R", "M", "_", "V", "A", "L", "U", "E", ":">>
L_question_answered ==
    <<"#", "#", "Q", "U", "E", "S", "T", "I", "O", "N", "_", "A", "N", "S", "W",
      "E", "R", "E", "D", "#", "#">>

\* The three patterns: "form" is ##FORM:(\w+)##, "value" is
\* ##FORM_VALUE:([^#]+)##, "qa" is ##QUESTION_ANSWERED##. MatchAt gives the
\* position after a match that starts at i, or 0 when none starts there.
\* (The class of the group excludes "#", so the greedy run is the only
\* candidate.)
MatchAt(text, i, pat) ==
    IF pat = "qa"
    THEN IF StartsWithAt(text, i, L_question_answered)
         THEN i + Len(L_question_answered) ELSE 0
    ELSE
      LET prefix == IF pat = "form" THEN L_form ELSE L_form_value
          g == i + Len(prefix)
          e == RunEnd(text, g, IF pat = "form" THEN "w" ELSE "v")
      IN  IF StartsWithAt(text, i, prefix) /\ e > g
             /\ StartsWithAt(text, e, L_hashes)
          THEN e + 2 ELSE 0

\* re.search: the start of the leftmost match at or after i, or 0.
RECURSIVE SearchFrom(_, _, _)
SearchFrom(text, i, pat) ==
    IF i > Len(text) THEN 0
    ELSE IF MatchAt(text, i, pat) # 0 THEN i
    ELSE SearchFrom(text, i + 1, pat)

\* match.group(1) of the match that starts at i.
Group1(text, i, pat) ==
    LET prefix == IF pat = "form" THEN L_form ELSE L_form_value
    IN  SubSeq(text, i + Len(prefix), MatchAt(text, i, pat) - 3)

\* re.sub(pattern, '', text): every non-overlapping match removed, left to
\* right.
RECURSIVE SubFrom(_, _, _)
SubFrom(text, i, pat) ==
    IF i > Len(text) THEN <<>>
    ELSE IF MatchAt(text, i, pat) # 0
    THEN SubFrom(text, MatchAt(text, i, pat), pat)
    ELSE <<text[i]>> \o SubFrom(text, i + 1, pat)

ReSub(text, pat) == SubFrom(text, 1, pat)

\* re.sub(r'\s+', ' ', text)
RECURSIVE CollapseSpace(_)
CollapseSpace(text) ==
    IF text = <<>> THEN <<>>
    ELSE IF Head(text) \in Whitespace
    THEN <<" ">> \o CollapseSpace(LStrip(text))
    ELSE <<Head(text)>> \o CollapseSpace(Tail(text))

\* The "no marker" result of an extractor: form_name / form_value None.
NoText == <<>>

\* AzureRealtimeBridge._extract_form_from_text: [text, found, form_name]
_extract_form_from_text(text) ==
    LET m == SearchFrom(text, 1, "form") IN
      IF m # 0
      THEN [text |-> Strip(ReSub(text, "form")), found |-> TRUE,
            value |-> Lower(Group1(text, m, "form"))]
      ELSE [text |-> text, found |-> FALSE, value |-> NoText]

\* AzureRealtimeBridge._extract_form_value_from_text: [text, found, value]
_extract_form_value_from_text(text) ==
    LET m == SearchFrom(text, 1, "value") IN
      IF m # 0
      THEN [text |-> Strip(ReSub(text, "value")), found |-> TRUE,
            value |-> Strip(Group1(text, m, "value"))]
      ELSE [text |-> text, found |-> FALSE, value |-> NoText]

\* AzureRealtimeBridge._extract_question_answered_from_text: [text, found]
_extract_question_answered_from_text(text) ==
    LET m == SearchFrom(text, 1, "qa") IN
      IF m # 0
      THEN [text |-> Strip(ReSub(text, "qa")), found |-> TRUE, value |-> NoText]
      ELSE [text |-> text, found |-> FALSE, value |-> NoText]

\* AzureRealtimeBridge._extract_conversational_content_only
_extract_conversational_content_only(text) ==
    Strip(CollapseSpace(ReSub(ReSub(ReSub(text, "form"), "value"), "qa")))

\* ------------------------------------------------------------ form schemas
\* The text of the answers and options the model uses.
S_empty == <<>>
S_blank == <<" ">>
S_dhruv == <<"d", "h", "r", "u", "v">>
S_Shishu == <<"S", "h", "i", "s", "h", "u">>
S_shishu == <<"s", "h", "i", "s", "h", "u">>
S_Kishor == <<"K", "i", "s", "h", "o", "r">>
S_KISHOR_sp == <<" ", "K", "I", "S", "H", "O", "R", " ">>
S_Tarun == <<"T", "a", "r", "u", "n">>
S_small == <<"s", "m", "a", "l", "l">>
S_25000 == <<"2", "5", "0", "0", "0">>
S_2p5 == <<"2", ".", "5">>
S_date == <<"2", "0", "2", "4", "-", "0", "1", "-", "0", "5">>
S_date_short == <<"2", "0", "2", "4", "-", "1", "-", "5">>
S_date_plain == <<"2", "0", "2", "4", "0", "1", "0", "5">>
S_not_a_date == <<"n", "o", "t", "-", "a", "-", "d", "a", "t", "e">>
S_date_odd == <<"1", "2", "3", "4", "5", "-", "6", "7", "-", "8">>
S_email == <<"a", "@", "b", ".", "c">>
S_email_bad == <<"a", ".", "b", "@", "c">>

\* FormField (form_manager.py): id, label, type, required, options.
NoOptions == <<>>

FormField(id, label, type, required, options) ==
    [id |-> id, label |-> label, type |-> type, required |-> required,
     options |-> options]

\* The schema files under form_schemas/: formIncome.json holds the income
\* (Mudra loan) form, formAadhaar.json the Aadhaar form.
SchemaFiles ==
    [formIncome |->
        [form_id |-> "formIncome", title |-> "Mudra Loan Application",
         fields |-> <<
            FormField("enterprise_name", "Name of the Enterprise", "text",
                      TRUE, NoOptions),
            FormField("loan_category", "Loan Category", "select", TRUE,
                      <<S_Shishu, S_Kishor, S_Tarun>>),
            FormField("loan_amount", "Loan Amount", "number", TRUE,
                      NoOptions)>>],
     formAadhaar |->
        [form_id |-> "formAadhaar", title |-> "Aadhaar Update",
         fields |-> <<
            FormField("dob", "Date of Birth", "date", TRUE, NoOptions),
            FormField("email", "Email", "email", FALSE, NoOptions)>>]]

\* The form names a caller may pass: mapped names, one that is its own file
\* name, and one with no schema file.
FormNames == {"income", "mudra", "aadhaar", "formIncome", "tax"}

\* The answers submitted to a session: for every field type one that is
\* accepted and one that is rejected.
Answers ==
    {S_blank, S_dhruv, S_shishu, S_small, S_25000, S_date, S_email}

\* The conversation identities (user_id keys of active_sessions).
Users == {"u1", "u2"}

\* ------------------------------------------------------------ form_manager
\* FormFieldManager.load_form_schema: the schema of a form name, or None.
\* (The cache only remembers what the file held.)
NoSchema == [form_id |-> "", title |-> "", fields |-> <<>>]

load_form_schema(form_name) ==
    LET schema_filename ==
            CASE form_name = "income" -> "formIncome"
              [] form_name = "mudra" -> "formIncome"
              [] form_name = "aadhaar" -> "formAadhaar"
              [] form_name = "aadhar" -> "formAadhaar"
              [] OTHER -> form_name
    IN  IF schema_filename \in DOMAIN SchemaFiles
        THEN SchemaFiles[schema_filename] ELSE NoSchema

\* FormSession; NoSession is the store's "no entry" (dict.get -> None).
NoSession ==
    [form_id |-> "", title |-> "", fields |-> <<>>,
     current_field_index |-> -1, completed_fields |-> <<>>]

NoField == FormField("", "", "", FALSE, NoOptions)

\* FormSession.current_field
current_field(session) ==
    IF 0 <= session.current_field_index
       /\ session.current_field_index < Len(session.fields)
    THEN session.fields[session.current_field_index + 1] ELSE NoField

\* FormSession.is_complete
is_complete(session) == session.current_field_index >= Len(session.fields)

\* dict[key] = value
DictSet(d, key, value) ==
    [k \in DOMAIN d \cup {key} |-> IF k = key THEN value ELSE d[k]]

EmptyDict == [k \in {} |-> PyNone]

\* A set_field_value that advances the cursor without storing the value.
set_field_value_no_store(session, field_id, value) ==
    IF current_field(session) # NoField /\ current_field(session).id = field_id
    THEN [session |-> [session EXCEPT !.current_field_index = @ + 1],
          ok |-> TRUE]
    ELSE [session |-> session, ok |-> FALSE]

\* A set_field_value that skips a field when it advances.
set_field_value_skip(session, field_id, value) ==
    IF current_field(session) # NoField /\ current_field(session).id = field_id
    THEN [session |->
            [session EXCEPT
               !.completed_fields = DictSet(@, field_id, value),
               !.current_field_index = @ + 2],
          ok |-> TRUE]
    ELSE [session |-> session, ok |-> FALSE]

\* FormSession.set_field_value: [session, ok]
set_field_value(session, field_id, value) ==
    IF current_field(session) # NoField /\ current_field(session).id = field_id
    THEN [session |->
            [session EXCEPT
               !.completed_fields = DictSet(@, field_id, value),
               !.current_field_index = @ + 1],
          ok |-> TRUE]
    ELSE [session |-> session, ok |-> FALSE]

\* FormSession.get_next_field_prompt: the parts the prompt string is built of.
NoPrompt == [label |-> "", hint |-> "", options |-> NoOptions, required |-> FALSE]

get_next_field_prompt(session) ==
    LET field == current_field(session) IN
      IF field = NoField THEN NoPrompt
      ELSE [label |-> field.label,
            hint |-> IF field.type = "date" THEN "YYYY-MM-DD"
                     ELSE IF field.type = "number" THEN "number"
                     ELSE IF field.options # NoOptions THEN "options"
                     ELSE "",
            options |-> IF field.type \notin {"date", "number"}
                        THEN field.options ELSE NoOptions,
            required |-> field.required]

\* FormFieldManager.get_active_session
get_active_session(store, user_id) == store[user_id]

\* list.index(x): the first position of x
IndexOf(seq, x) == CHOOSE i \in 1..Len(seq) : seq[i] = x /\ \A j \in 1..(i - 1) : seq[j] # x

\* An options branch that returns the value as the user typed it.
option_for_as_typed(options, value) ==
    LET lower_options == [i \in 1..Len(options) |-> Lower(options[i])]
    IN  IF \E i \in 1..Len(lower_options) : lower_options[i] = Lower(value)
        THEN PyStr(value)
        ELSE PyNone

\* _validate_and_convert_value, the options branch: the option that equals
\* the value in lower case, as the option list spells it, or None.
option_for(options, value) ==
    LET lower_options == [i \in 1..Len(options) |-> Lower(options[i])]
    IN  IF \E i \in 1..Len(lower_options) : lower_options[i] = Lower(value)
        THEN PyStr(options[IndexOf(lower_options, Lower(value))])
        ELSE PyNone

\* FormFieldManager._validate_and_convert_value: the converted value, or None.
_validate_and_convert_value(field, raw) ==
    LET value == Strip(raw) IN
      IF field.type = "text"
      THEN IF value # <<>> THEN PyStr(value) ELSE PyNone
      ELSE IF field.type = "number"
      THEN IF IsDigit(value) THEN PyInt(IntOf(value))
           ELSE IF IsFloatLiteral(value) THEN PyFloat(value) ELSE PyNone
      ELSE IF field.type = "date"
      THEN IF Len(value) = 10 /\ Count(value, "-") = 2
              /\ LET parts == Split(value, "-") IN
                   Len(parts) = 3 /\ \A i \in 1..Len(parts) : IsDigit(parts[i])
           THEN PyStr(value) ELSE PyNone
      ELSE IF field.type = "email"
      THEN IF Contains(value, "@")
              /\ LET parts == Split(value, "@") IN
                   Contains(parts[Len(parts)], ".")
           THEN PyStr(value) ELSE PyNone
      ELSE IF field.options # NoOptions
      THEN option_for(field.options, value)
      ELSE PyStr(value)

\* FormSession.progress_percentage (rounded down to a whole percent).
progress_percentage(session) ==
    IF session.fields = <<>> THEN 100
    ELSE (session.current_field_index * 100) \div Len(session.fields)

\* A create_form_session that drops the conversation's session when the
\* schema cannot be loaded.
create_form_session_drop(store, user_id, form_name) ==
    LET schema == load_form_schema(form_name) IN
      IF schema = NoSchema
      THEN [store |-> [store EXCEPT ![user_id] = NoSession],
            session |-> NoSession]
      ELSE LET session ==
                 [form_id |-> schema.form_id, title |-> schema.title,
                  fields |-> schema.fields, current_field_index |-> 0,
                  completed_fields |-> EmptyDict]
           IN  [store |-> [store EXCEPT ![user_id] = session],
                session |-> session]

\* FormFieldManager.create_form_session: [store, session]; session is
\* NoSession when the schema cannot be loaded.
create_form_session(store, user_id, form_name) ==
    LET schema == load_form_schema(form_name) IN
      IF schema = NoSchema
      THEN [store |-> store, session |-> NoSession]
      ELSE LET session ==
                 [form_id |-> schema.form_id, title |-> schema.title,
                  fields |-> schema.fields, current_field_index |-> 0,
                  completed_fields |-> EmptyDict]
           IN  [store |-> [store EXCEPT ![user_id] = session],
                session |-> session]

\* The failure result of process_user_answer for a rejected value.
validation_failure(f) ==
    [success |-> FALSE, error |-> "Invalid value", error_label |-> f.label,
     error_type |-> f.type,
     field |-> [id |-> f.id, label |-> f.label, type |-> f.type]]

\* process_user_answer once the value is validated: set the field value,
\* advance, and build the success response.
answer_accepted(store, user_id, session, field, processed_value) ==
    LET r == set_field_value(session, field.id, processed_value)
        s2 == r.session
        base ==
          [success |-> r.ok,
           completed_field |-> [id |-> field.id, label |-> field.label,
                                value |-> processed_value],
           form_progress |->
             [current_index |-> s2.current_field_index,
              total_fields |-> Len(s2.fields),
              percentage |-> progress_percentage(s2),
              is_complete |-> is_complete(s2)]]
        more ==
          IF ~is_complete(s2)
          THEN [next_field |->
                  [id |-> current_field(s2).id,
                   label |-> current_field(s2).label,
                   type |-> current_field(s2).type,
                   required |-> current_field(s2).required,
                   prompt |-> get_next_field_prompt(s2)]]
          ELSE [completed_form |->
                  [form_id |-> s2.form_id, title |-> s2.title,
                   data |-> s2.completed_fields]]
    IN  [store |-> [store EXCEPT ![user_id] = s2], response |-> base @@ more]

NoActiveSession ==
    [success |-> FALSE, error |-> "No active form session or no current field"]

\* A process_user_answer that advances past the field before it looks at the
\* validation result.
process_user_answer_advance_first(store, user_id, answer) ==
    LET session == get_active_session(store, user_id) IN
      IF session = NoSession \/ current_field(session) = NoField
      THEN [store |-> store, response |-> NoActiveSession]
      ELSE
        LET field == current_field(session)
            processed_value == _validate_and_convert_value(field, answer)
            adv == answer_accepted(store, user_id, session, field,
                                   PyStr(answer))
        IN  IF processed_value = PyNone
            THEN [store |-> adv.store, response |-> validation_failure(field)]
            ELSE answer_accepted(store, user_id, session, field,
                                 processed_value)

\* FormFieldManager.process_user_answer: [store, response].
process_user_answer(store, user_id, answer) ==
    LET session == get_active_session(store, user_id) IN
      IF session = NoSession \/ current_field(session) = NoField
      THEN [store |-> store, response |-> NoActiveSession]
      ELSE
        LET field == current_field(session)
            processed_value == _validate_and_convert_value(field, answer)
        IN  IF processed_value = PyNone
            THEN [store |-> store, response |-> validation_failure(field)]
            ELSE answer_accepted(store, user_id, session, field,
                                 processed_value)

\* A clear_session that empties the whole store.
clear_session_everyone(store, user_id) ==
    IF store[user_id] # NoSession
    THEN [store |-> [u \in DOMAIN store |-> NoSession], ok |-> TRUE]
    ELSE [store |-> store, ok |-> FALSE]

\* FormFieldManager.clear_session: [store, ok]
clear_session(store, user_id) ==
    IF store[user_id] # NoSession
    THEN [store |-> [store EXCEPT ![user_id] = NoSession], ok |-> TRUE]
    ELSE [store |-> store, ok |-> FALSE]

\* A restart that leaves the sessions where they are.
clear_all_keeps(store) == store

\* restart_all_sessions: active_sessions.clear()
clear_all(store) == [u \in DOMAIN store |-> NoSession]

\* ------------------------------------------------------------------ state
VARIABLES
    active_sessions,   \* form_field_manager.active_sessions: user_id -> FormSession
    last,              \* the last form_manager call: its name, arguments and result
    bridge,            \* the AzureRealtimeBridge object's fields
    lock,              \* bridge._lock: the task that holds it, or ""
    stacks,            \* per task, the frames of the coroutine calls in progress
    upstream,          \* the Azure side: frames received, turns ended, events sent
    frontend           \* what the client websocket was sent

vars == <<active_sessions, last, bridge, lock, stacks, upstream, frontend>>

bridge_vars == <<bridge, lock, stacks, upstream, frontend>>

\* ------------------------------------------------- bridge: initial state
\* chat_ws gives each client connection a bridge of its own; the model's
\* bridge serves conversation "u1".
BridgeUser == "u1"

Tasks == {"client", "recv"}

\* AzureRealtimeBridge.__init__ (current_response_id 0 is None). settings
\* says whether the endpoint and the key are configured; ws is "none", "open"
\* or "closed" (a websocket whose close_code is set); recv_task is "none",
\* "running", "done" or "cancelled".
NewBridge ==
    [settings |-> "ok",
     ws |-> "none", recv_task |-> "none", response_buffer |-> <<>>,
     closing |-> FALSE, current_response_id |-> 0, response_sent |-> FALSE,
     system_sent |-> FALSE, form_session_active |-> FALSE,
     awaiting_field_answer |-> FALSE, ai_responding |-> FALSE,
     pending_requests |-> <<>>, audio_buffer |-> <<>>]

NoStacks == [t \in Tasks |-> <<>>]

\* Azure has received no frame, ended no turn and sent no event. conn is
\* what it does with a connection: "ok", "refuse" it, or accept it and
\* "drop" it before the first or ("drop_late") the second frame of the
\* handshake.
NewUpstream ==
    [frames |-> <<>>, ended |-> 0, events |-> 0, signals |-> <<>>,
     conn |-> "ok"]

\* The client has been sent nothing; submitted counts its own messages,
\* first is the type of the first event it was sent.
NewFrontend ==
    [submitted |-> 0, consolidated |-> <<>>, last |-> [type |-> "none"],
     first |-> "none"]

\* ------------------------------------------------- bridge: coroutines
\* asyncio runs one task at a time and switches tasks only where a coroutine
\* awaits I/O or a held lock. A task's stack holds the frames of its calls,
\* innermost first; a frame is [pc, a]: the place to go on from and the
\* locals. A block runs the innermost frame up to its next await. The world
\* w is everything the blocks read and write:
\* [b (bridge fields), store (active_sessions), lock, stacks, up, fe].
F(pc, a) == [pc |-> pc, a |-> a]

NoArgs == [none |-> TRUE]

Top(w, t) == Head(w.stacks[t])

\* The innermost frame returns.
Return(w, t) == [w EXCEPT !.stacks[t] = Tail(@)]

\* The innermost frame goes on as the frames fs (calls first, then what
\* follows them).
Goto(w, t, fs) == [w EXCEPT !.stacks[t] = fs \o Tail(@)]

\* The block ended without awaiting / at an await.
Continue(w) == [w |-> w, yield |-> FALSE]
Yield(w) == [w |-> w, yield |-> TRUE]

\* AzureRealtimeBridge._emit_frontend: the payload goes to the client; a
\* consolidated message is counted against the upstream turn it closes.
IsConsolidated(payload) == payload.type \in {"assistant_message", "audio_message"}

\* WebSocket.send_text on the client's websocket.
send_text(w, payload) ==
    [w EXCEPT !.fe.last = payload,
              !.fe.first = IF @ = "none" THEN payload.type ELSE @]

_emit_frontend(w, payload) ==
    [send_text(w, payload) EXCEPT
              !.fe.consolidated =
                 IF IsConsolidated(payload) THEN Append(@, payload.turn) ELSE @]

\* Azure starts one turn per response.create frame, in the order received.
NumCreates(frames) ==
    Cardinality({i \in 1..Len(frames) : frames[i].type = "response.create"})

\* The items sent by send operations (op numbers them).
NumItems(frames) ==
    Cardinality({i \in 1..Len(frames) :
                   frames[i].type = "conversation.item.create"
                   /\ frames[i].kind # "instructions"})

\* ws.send
ws_send(w, frame) == [w EXCEPT !.up.frames = Append(@, frame)]

\* What a call that may raise gives: the world it leaves and the error it
\* raises ("" for none).
Ok(w) == [w |-> w, error |-> ""]
Failed(w, error) == [w |-> w, error |-> error]

\* ensure_connected once the websocket is connected: session.update and the
\* system instructions are sent, then the receiver task is started. A send
\* on a connection the upstream has dropped raises, and leaves a websocket
\* whose close_code is set.
Handshake(w) ==
    IF w.up.conn = "drop"
    THEN Failed([w EXCEPT !.b.ws = "closed"], "ConnectionClosed")
    ELSE IF w.up.conn = "drop_late"
    THEN Failed(ws_send([w EXCEPT !.b.ws = "closed"],
                        [type |-> "session.update"]), "ConnectionClosed")
    ELSE Ok([ws_send(ws_send([w EXCEPT !.b.ws = "open"],
                             [type |-> "session.update"]),
                     [type |-> "conversation.item.create",
                      role |-> "system", kind |-> "instructions"])
               EXCEPT !.b.system_sent = TRUE, !.b.recv_task = "running"])

\* ensure_connected from _build_url on: the endpoint, the key, the
\* connection, the handshake.
Connect(w) ==
    IF w.b.settings = "no_endpoint"
    THEN Failed(w, "AZURE_OPENAI_ENDPOINT not configured")
    ELSE IF w.b.settings = "no_key"
    THEN Failed(w, "Azure OpenAI key not configured")
    ELSE IF w.up.conn = "refuse"
    THEN Failed(w, "connect failed")
    ELSE Handshake(w)

\* AzureRealtimeBridge.ensure_connected: nothing when the websocket is open;
\* otherwise connect, send session.update and the system instructions, and
\* start the receiver task. It awaits while it connects, but the caller holds
\* the lock and no receive task runs on a websocket that is not open, so
\* nothing can run in between.
ensure_connected(w) ==
    IF w.b.ws = "open" THEN Ok(w) ELSE Connect(w)

\* An exception leaves the task t: every frame of the task is left, and the
\* lock with them (async with). In the client task chat_ws catches it and
\* sends the client an error event; in the receive task _receiver_loop
\* catches it and ends.
Raise(w, t, error) ==
    LET w1 == [w EXCEPT !.stacks[t] = <<>>,
                        !.lock = IF @ = t THEN "" ELSE @]
    IN  IF t = "client"
        THEN Continue(send_text(w1, [type |-> "error", error |-> error]))
        ELSE Continue([w1 EXCEPT !.b.recv_task = "done"])

\* The pending-queue entry a send operation appends when the AI is busy.
QueuedEntry(kind, content) ==
    IF kind = "user_text"
    THEN [type |-> "user_text_message", content |-> content]
    ELSE IF kind = "user_audio"
    THEN [type |-> "user_audio_message", audio_data |-> content]
    ELSE [type |-> "system_message", content |-> content]

\* send_*: under the lock, connect and send conversation.item.create; the
\* coroutine then awaits that send.
\* ... the item is sent on the websocket of the connected bridge.
SendConnected(w1, t, a, op) ==
    Yield(Goto(ws_send(w1, [type |-> "conversation.item.create",
                            role |-> IF a.kind = "system" THEN "system"
                                     ELSE "user",
                            kind |-> a.kind, content |-> a.content,
                            op |-> op]),
               t, <<F("send_item_sent", [kind |-> a.kind, op |-> op])>>))

\* A send operation that goes on when ensure_connected has raised.
SendAfterConnect_ignore_error(c, t, a) ==
    SendConnected(c.w, t, a, NumItems(c.w.up.frames) + 1)

\* ... once ensure_connected has returned or raised.
SendAfterConnect(c, t, a) ==
    IF c.error # "" THEN Raise(c.w, t, c.error)
    ELSE SendConnected(c.w, t, a, NumItems(c.w.up.frames) + 1)

SendLocked(w, t) ==
    SendAfterConnect(ensure_connected([w EXCEPT !.lock = t]), t, Top(w, t).a)

\* A send operation that does not look at ai_responding before it sends.
SendBegin_no_check(w, t) ==
    LET a == Top(w, t).a IN
      IF a.kind = "user_audio" /\ ~a.content.playable
      THEN Continue(Return(w, t))
      ELSE IF w.lock # ""
      THEN Yield(Goto(w, t, <<F("send_wait_lock", a)>>))
      ELSE SendLocked(w, t)

\* A send operation that enters its critical section without taking notice
\* of who holds the lock.
SendBegin_no_lock(w, t) ==
    LET a == Top(w, t).a IN
      IF w.b.ai_responding
      THEN Continue(Return(
             [w EXCEPT !.b.pending_requests =
                          Append(@, QueuedEntry(a.kind, a.content))], t))
      ELSE IF a.kind = "user_audio" /\ ~a.content.playable
      THEN Continue(Return(w, t))
      ELSE SendLocked(w, t)

\* send_user_message / send_user_audio_message / send_system_message up to
\* the first await: queue when ai_responding, else (audio: give up on data
\* that cannot be processed) take the lock, or wait for it.
SendBegin(w, t) ==
    LET a == Top(w, t).a IN
      IF w.b.ai_responding
      THEN Continue(Return(
             [w EXCEPT !.b.pending_requests =
                          Append(@, QueuedEntry(a.kind, a.content))], t))
      ELSE IF a.kind = "user_audio" /\ ~a.content.playable
      THEN Continue(Return(w, t))
      ELSE IF w.lock # ""
      THEN Yield(Goto(w, t, <<F("send_wait_lock", a)>>))
      ELSE SendLocked(w, t)

\* ... after the item is sent: send response.create and await that send.
SendItemSent(w, t) ==
    LET a == Top(w, t).a
        w1 == ws_send(w, [type |-> "response.create", kind |-> a.kind,
                          op |-> a.op])
    IN  Yield(Goto(w1, t, <<F("send_create_sent", a)>>))

\* ... after response.create is sent: set ai_responding, leave the lock.
SendCreateSent(w, t) ==
    Continue(Return([w EXCEPT !.b.ai_responding = TRUE, !.lock = ""], t))

\* The system messages the bridge writes.
FieldPromptMessage(prompt) == [kind |-> "field_prompt", prompt |-> prompt]

\* AzureRealtimeBridge._ask_for_next_field up to its await.
AskForNextField(w, t) ==
    LET session == get_active_session(w.store, BridgeUser) IN
      IF w.b.ai_responding
      THEN Continue(Return(
             [w EXCEPT !.b.pending_requests =
                          Append(@, [type |-> "field_request",
                                     has_prompt |-> FALSE,
                                     field_prompt |-> NoPrompt])], t))
      ELSE IF session = NoSession \/ current_field(session) = NoField
      THEN Continue(Return(w, t))
      ELSE
        LET w1 == _emit_frontend(w,
                    [type |-> "form_field_focus",
                     field_id |-> current_field(session).id,
                     current_index |-> session.current_field_index])
        IN  Yield(Goto(w1, t, <<F("anf_focused",
                       [prompt |-> get_next_field_prompt(session)])>>))

\* ... after form_field_focus is sent: the system message, then the flag.
AskFocused(w, t) ==
    LET a == Top(w, t).a IN
      Continue(Goto(w, t,
        <<F("send_begin", [kind |-> "system",
                           content |-> FieldPromptMessage(a.prompt)]),
          F("anf_await", NoArgs)>>))

AskAwait(w, t) ==
    Continue(Return([w EXCEPT !.b.awaiting_field_answer = TRUE], t))

\* A _process_pending_requests that puts the popped request back at the end
\* of the queue when a send operation holds the lock.
ProcessPending_put_back(w, t) ==
    IF w.b.pending_requests # <<>> /\ ~w.b.ai_responding
    THEN LET request == Head(w.b.pending_requests)
             w1 == [w EXCEPT !.b.pending_requests = Tail(@)]
         IN  IF w.lock # ""
             THEN Continue(Return(
                    [w1 EXCEPT !.b.pending_requests = Append(@, request)], t))
             ELSE Continue(Goto(w1, t,
               IF request.type = "field_request"
               THEN IF request.has_prompt
                    THEN <<F("send_begin",
                             [kind |-> "system",
                              content |-> FieldPromptMessage(request.field_prompt)])>>
                    ELSE <<F("anf", NoArgs)>>
               ELSE IF request.type = "system_message"
               THEN <<F("send_begin", [kind |-> "system",
                                       content |-> request.content])>>
               ELSE IF request.type = "user_audio_message"
               THEN <<F("send_begin", [kind |-> "user_audio",
                                       content |-> request.audio_data])>>
               ELSE <<F("send_begin", [kind |-> "user_text",
                                       content |-> request.content])>>))
    ELSE Continue(Return(w, t))

\* AzureRealtimeBridge._process_pending_requests: pop one request and
\* dispatch it. (No caller queues 'field_request_with_ack', so that branch
\* never runs.)
ProcessPending(w, t) ==
    IF w.b.pending_requests # <<>> /\ ~w.b.ai_responding
    THEN LET request == Head(w.b.pending_requests)
             w1 == [w EXCEPT !.b.pending_requests = Tail(@)]
         IN  Continue(Goto(w1, t,
               IF request.type = "field_request"
               THEN IF request.has_prompt
                    THEN <<F("send_begin",
                             [kind |-> "system",
                              content |-> FieldPromptMessage(request.field_prompt)])>>
                    ELSE <<F("anf", NoArgs)>>
               ELSE IF request.type = "system_message"
               THEN <<F("send_begin", [kind |-> "system",
                                       content |-> request.content])>>
               ELSE IF request.type = "user_audio_message"
               THEN <<F("send_begin", [kind |-> "user_audio",
                                       content |-> request.audio_data])>>
               ELSE <<F("send_begin", [kind |-> "user_text",
                                       content |-> request.content])>>))
    ELSE Continue(Return(w, t))

\* ------------------------------------------------- bridge: form answers
\* The other system messages the bridge writes.
FormCompleteMessage(completed_field) ==
    [kind |-> "form_complete", value |-> completed_field.value,
     label |-> completed_field.label]

\* field_info.get('label', 'the current field'), field_info.get('options')
ValidationErrorMessage(user_answer, result) ==
    LET field_info == IF "field" \in DOMAIN result THEN result.field
                      ELSE [none |-> TRUE]
    IN  [kind |-> "validation_error", answer |-> user_answer,
         label |-> IF "label" \in DOMAIN field_info THEN field_info.label
                   ELSE "the current field",
         options |-> IF "options" \in DOMAIN field_info
                     THEN field_info.options ELSE NoOptions,
         error |-> result.error]

\* _process_field_answer once process_user_answer has returned r:
\* form_field_update or form_field_error goes to the client.
AnswerProcessed(w, t, answer, r, result) ==
    IF result.success
    THEN Yield(Goto(
           _emit_frontend([w EXCEPT !.store = r.store],
             [type |-> "form_field_update",
              field_id |-> result.completed_field.id,
              value |-> result.completed_field.value,
              form_progress |-> result.form_progress]),
           t, <<F("pfa_updated", [result |-> result])>>))
    ELSE Yield(Goto(
           _emit_frontend([w EXCEPT !.store = r.store],
             [type |-> "form_field_error", error |-> result.error,
              has_field |-> "field" \in DOMAIN result,
              field |-> IF "field" \in DOMAIN result
                        THEN result.field ELSE [none |-> TRUE]]),
           t, <<F("pfa_error", [result |-> result, answer |-> answer])>>))

AnswerReturned(w, t, answer, r) == AnswerProcessed(w, t, answer, r, r.response)

\* AzureRealtimeBridge._process_field_answer up to its first await.
ProcessFieldAnswer(w, t) ==
    IF ~w.b.form_session_active
       \/ get_active_session(w.store, BridgeUser) = NoSession
    THEN Continue(Return(w, t))
    ELSE AnswerReturned(w, t, Top(w, t).a.answer,
           process_user_answer(w.store, BridgeUser, Top(w, t).a.answer))

\* A _process_field_answer that completes the form without telling the
\* client.
FieldUpdated_no_event(w, t) ==
    LET result == Top(w, t).a.result IN
      IF result.form_progress.is_complete
      THEN Continue(Goto(
             [w EXCEPT !.b.form_session_active = FALSE,
                       !.b.awaiting_field_answer = FALSE],
             t, <<F("pfa_completed", [result |-> result])>>))
      ELSE Continue(Goto(w, t, <<F("anf", NoArgs)>>))

\* ... after form_field_update is sent.
FieldUpdated(w, t) ==
    LET result == Top(w, t).a.result IN
      IF result.form_progress.is_complete
      THEN Yield(Goto(
             _emit_frontend(
               [w EXCEPT !.b.form_session_active = FALSE,
                         !.b.awaiting_field_answer = FALSE],
               [type |-> "form_completed",
                form_data |-> result.completed_form.data]),
             t, <<F("pfa_completed", [result |-> result])>>))
      ELSE Continue(Goto(w, t, <<F("anf", NoArgs)>>))

\* ... after form_completed is sent.
FormCompleted(w, t) ==
    LET result == Top(w, t).a.result IN
      Continue(Goto(w, t,
        <<F("send_begin",
            [kind |-> "system",
             content |-> FormCompleteMessage(result.completed_field)])>>))

\* ... after form_field_error is sent.
FieldError(w, t) ==
    LET a == Top(w, t).a
        session == get_active_session(w.store, BridgeUser)
    IN  IF session # NoSession /\ current_field(session) # NoField
        THEN Continue(Goto(w, t,
               <<F("send_begin",
                   [kind |-> "system",
                    content |-> ValidationErrorMessage(a.answer, a.result)])>>))
        ELSE Continue(Return(w, t))

\* --------------------------------------- bridge: the consolidated message
\* The form names as the marker regex reads them.
FormNameText ==
    [aadhaar |-> <<"a", "a", "d", "h", "a", "a", "r">>,
     aadhar |-> <<"a", "a", "d", "h", "a", "r">>,
     income |-> <<"i", "n", "c", "o", "m", "e">>,
     mudra |-> <<"m", "u", "d", "r", "a">>]

\* AzureRealtimeBridge._get_form_url: the form the url is for, "" for none.
_get_form_url(form_name) ==
    IF \E n \in DOMAIN FormNameText : FormNameText[n] = form_name
    THEN CHOOSE n \in DOMAIN FormNameText : FormNameText[n] = form_name
    ELSE ""

S_audio_response ==
    <<"A", "u", "d", "i", "o", " ", "r", "e", "s", "p", "o", "n", "s", "e">>

\* The three extractors in the order the bridge applies them:
\* [form, value, qa], each an extractor's result.
MarkersAfterValue(x1, x2) ==
    [form |-> x1, value |-> x2,
     qa |-> _extract_question_answered_from_text(x2.text)]

MarkersAfterForm(x1) ==
    MarkersAfterValue(x1, _extract_form_value_from_text(x1.text))

ExtractMarkers(text) == MarkersAfterForm(_extract_form_from_text(text))

\* Form activation: [form, store, activated, field_prompt] for the form
\* name a marker gave; form is "" when the name has no url.
ActivationOf(form_url, created) ==
    [form |-> form_url, store |-> created.store,
     activated |-> created.session # NoSession
                   /\ current_field(created.session) # NoField,
     field_prompt |-> get_next_field_prompt(created.session)]

ActivateForm(store, form_url) ==
    ActivationOf(form_url,
                 IF form_url # ""
                 THEN create_form_session(store, BridgeUser, form_url)
                 ELSE [store |-> store, session |-> NoSession])

\* A consolidated message whose question-answered marker ends the wait for
\* the field's answer.
SendAssistantMarked_qa_ends_wait(w, t, a, x, act) ==
    LET payload ==
          [type |-> IF a.audio THEN "audio_message" ELSE "assistant_message",
           turn |-> a.turn,
           content |-> IF a.audio
                       THEN _extract_conversational_content_only(a.text)
                       ELSE x.qa.text,
           field_prompt |-> IF a.audio THEN NoPrompt ELSE act.field_prompt,
           form |-> act.form]
        active == act.activated \/ w.b.form_session_active
        w1 == [w EXCEPT
                 !.store = act.store,
                 !.b.form_session_active = active,
                 !.b.awaiting_field_answer =
                    IF x.qa.found /\ active THEN FALSE
                    ELSE IF act.activated THEN TRUE ELSE @,
                 !.b.pending_requests =
                    IF act.activated /\ a.audio
                    THEN Append(@, [type |-> "field_request",
                                    has_prompt |-> TRUE,
                                    field_prompt |-> act.field_prompt])
                    ELSE @]
    IN  Continue(Goto(w1, t,
          (IF x.value.found /\ x.value.value # <<>> /\ active
           THEN <<F("pfa", [answer |-> x.value.value])>> ELSE <<>>)
          \o <<F("sm_emit", [payload |-> payload])>>))

\* ... the rest, with the markers x and the activation act at hand.
SendAssistantMarked(w, t, a, x, act) ==
    LET payload ==
          [type |-> IF a.audio THEN "audio_message" ELSE "assistant_message",
           turn |-> a.turn,
           content |-> IF a.audio
                       THEN _extract_conversational_content_only(a.text)
                       ELSE x.qa.text,
           field_prompt |-> IF a.audio THEN NoPrompt ELSE act.field_prompt,
           form |-> act.form]
        active == act.activated \/ w.b.form_session_active
        w1 == [w EXCEPT
                 !.store = act.store,
                 !.b.form_session_active = active,
                 !.b.awaiting_field_answer =
                    IF act.activated \/ (x.qa.found /\ active)
                    THEN TRUE ELSE @,
                 !.b.pending_requests =
                    IF act.activated /\ a.audio
                    THEN Append(@, [type |-> "field_request",
                                    has_prompt |-> TRUE,
                                    field_prompt |-> act.field_prompt])
                    ELSE @]
    IN  Continue(Goto(w1, t,
          (IF x.value.found /\ x.value.value # <<>> /\ active
           THEN <<F("pfa", [answer |-> x.value.value])>> ELSE <<>>)
          \o <<F("sm_emit", [payload |-> payload])>>))

\* _send_assistant_message / _send_assistant_audio_message_with_data /
\* _send_assistant_audio_message after the audio is saved, up to the first
\* await: markers, form activation, question-answered, form value.
\* a.audio says which of them runs; a.text is the text or transcript.
SendAssistantWith(w, t, a, x) ==
    SendAssistantMarked(w, t, a, x,
      ActivateForm(w.store,
                   IF x.form.found THEN _get_form_url(x.form.value) ELSE ""))

SendAssistant(w, t) ==
    SendAssistantWith(w, t, Top(w, t).a, ExtractMarkers(Top(w, t).a.text))

\* ... the consolidated message goes to the client.
SendAssistantEmit(w, t) ==
    Yield(Goto(_emit_frontend(w, Top(w, t).a.payload), t,
               <<F("sm_tail", NoArgs)>>))

\* A tail that leaves response_sent as it was.
SendAssistantTail_not_sent(w, t) ==
    Continue(Goto([w EXCEPT !.b.ai_responding = FALSE], t,
                  <<F("process_pending", NoArgs)>>))

\* ... then the turn is closed and the queue is served.
SendAssistantTail(w, t) ==
    Continue(Goto([w EXCEPT !.b.response_sent = TRUE,
                            !.b.ai_responding = FALSE], t,
                  <<F("process_pending", NoArgs)>>))

\* AzureRealtimeBridge._send_assistant_audio_message up to the point where
\* the audio is saved. An item is [audio_part, audio, saved, text]: whether
\* it has an audio content part, whether that part carries data, whether the
\* data can be written to a file, and the text of its text part (NoText for
\* none or empty).
SendAssistantAudioItem(w, t) ==
    LET a == Top(w, t).a IN
      IF ~a.item.audio
      THEN IF a.item.text # NoText
           THEN Continue(Goto(w, t,
                  <<F("sam", [audio |-> FALSE, text |-> a.item.text,
                              turn |-> a.turn])>>))
           ELSE Continue(Return(w, t))
      ELSE IF ~a.item.saved
      THEN Continue(Return(w, t))
      ELSE Continue(Goto(w, t,
             <<F("sam", [audio |-> TRUE,
                         text |-> IF a.item.text # NoText THEN a.item.text
                                  ELSE S_audio_response,
                         turn |-> a.turn])>>))

\* --------------------------------------------- bridge: upstream events
\* "".join(parts)
RECURSIVE Join(_)
Join(parts) == IF parts = <<>> THEN <<>> ELSE Head(parts) \o Join(Tail(parts))

TerminalTypes ==
    {"response.output_text.done", "response.completed", "response.done"}

CompletionTypes ==
    {"response.output_item.done", "response.content_part.done"}
    \cup TerminalTypes

\* AzureRealtimeBridge._handle_event up to its first await or call. An event
\* is [type, rid, turn, ...]: rid is its response_id (0 when it has none),
\* turn the upstream turn it belongs to. A frame that is JSON but not an
\* object (type "non_object") has no get: event.get raises.
HandleEvent(w, t) ==
    LET e == Top(w, t).a.e
        w0 == IF e.rid # 0 /\ e.rid # w.b.current_response_id
              THEN [w EXCEPT !.b.current_response_id = e.rid,
                             !.b.response_sent = FALSE,
                             !.b.ai_responding = TRUE,
                             !.b.audio_buffer = <<>>]
              ELSE w
    IN  IF e.type = "non_object"
        THEN Raise(w, t, "AttributeError")
        ELSE IF e.type = "response.output_text.delta"
        THEN IF e.delta # <<>>
             THEN Continue(Return(
                    _emit_frontend(
                      [w0 EXCEPT !.b.response_buffer = Append(@, e.delta)],
                      [type |-> "assistant_delta", delta |-> e.delta]), t))
             ELSE Continue(Return(w0, t))
        ELSE IF e.type = "response.audio.delta"
        THEN IF e.delta # <<>>
             THEN Continue(Return(
                    _emit_frontend(
                      [w0 EXCEPT !.b.audio_buffer = Append(@, e.delta)],
                      [type |-> "assistant_audio_delta", delta |-> e.delta]),
                    t))
             ELSE Continue(Return(w0, t))
        ELSE IF e.type = "response.output_item.done" /\ ~w0.b.response_sent
        THEN IF e.item.audio_part
             THEN Continue(Goto(w0, t,
                    <<F("sam_audio_item", [item |-> e.item,
                                           turn |-> e.turn])>>))
             ELSE IF e.item.text # NoText
             THEN Continue(Goto(w0, t,
                    <<F("sam", [audio |-> FALSE, text |-> e.item.text,
                                turn |-> e.turn])>>))
             ELSE Continue(Return(w0, t))
        ELSE IF e.type = "response.content_part.done" /\ ~w0.b.response_sent
        THEN IF e.part.type = "audio"
             THEN IF w0.b.audio_buffer # <<>>
                  THEN Continue(Goto(w0, t,
                         <<F("sam", [audio |-> TRUE,
                                     text |-> IF e.part.has_transcript
                                              THEN e.part.text
                                              ELSE S_audio_response,
                                     turn |-> e.turn])>>))
                  ELSE IF e.part.has_transcript /\ e.part.text # NoText
                  THEN Continue(Goto(w0, t,
                         <<F("sam", [audio |-> FALSE, text |-> e.part.text,
                                     turn |-> e.turn])>>))
                  ELSE Continue(Return(w0, t))
             ELSE IF e.part.text # NoText
             THEN Continue(Goto(w0, t,
                    <<F("sam", [audio |-> FALSE, text |-> e.part.text,
                                turn |-> e.turn])>>))
             ELSE Continue(Return(w0, t))
        ELSE IF e.type \in TerminalTypes /\ ~w0.b.response_sent
        THEN IF w0.b.response_buffer # <<>>
             THEN Continue(Goto(
                    [w0 EXCEPT !.b.response_buffer = <<>>], t,
                    <<F("sam", [audio |-> FALSE,
                                text |-> Join(w0.b.response_buffer),
                                turn |-> e.turn]),
                      F("terminal_tail", NoArgs)>>))
             ELSE Continue(Goto(w0, t, <<F("terminal_tail", NoArgs)>>))
        ELSE Continue(Return(w0, t))

\* ... the end of the terminal branch: close the turn when no message was
\* sent for it.
TerminalTail(w, t) ==
    IF ~w.b.response_sent
    THEN Continue(Goto([w EXCEPT !.b.ai_responding = FALSE], t,
                       <<F("process_pending", NoArgs)>>))
    ELSE Continue(Return(w, t))

\* A receive loop that ends on a frame that is not JSON.
ReceiveFrame_stops(w, t) ==
    LET e == Top(w, t).a.e IN
      IF e.type = "non_json"
      THEN Raise(w, t, "JSONDecodeError")
      ELSE Continue(Goto(w, t, <<F("handle_event", [e |-> e])>>))

\* _receiver_loop, one frame: a frame that json.loads cannot parse (type
\* "non_json") is skipped, any other is handed to _handle_event.
ReceiveFrame(w, t) ==
    LET e == Top(w, t).a.e IN
      IF e.type = "non_json"
      THEN Continue(Return(w, t))
      ELSE Continue(Goto(w, t, <<F("handle_event", [e |-> e])>>))

\* ------------------------------------------------ bridge: running a task
\* What a send operation found and did up to its first await (r is the
\* result of its first block): kept in last for the properties to read.
Traced(w, t, r) ==
    [r EXCEPT !.w.last =
        [op |-> "send", user |-> BridgeUser, task |-> t,
         kind |-> Top(w, t).a.kind, content |-> Top(w, t).a.content,
         busy |-> w.b.ai_responding,
         frames_before |-> Len(w.up.frames),
         frames_after |-> Len(r.w.up.frames),
         queue_before |-> w.b.pending_requests,
         queue_after |-> r.w.b.pending_requests]]

\* One block of the task's innermost frame.
Block(w, t) ==
    LET pc == Top(w, t).pc IN
      CASE pc = "send_begin" -> Traced(w, t, SendBegin(w, t))
        [] pc = "send_wait_lock" -> SendLocked(w, t)
        [] pc = "send_item_sent" -> SendItemSent(w, t)
        [] pc = "send_create_sent" -> SendCreateSent(w, t)
        [] pc = "process_pending" -> ProcessPending(w, t)
        [] pc = "anf" -> AskForNextField(w, t)
        [] pc = "anf_focused" -> AskFocused(w, t)
        [] pc = "anf_await" -> AskAwait(w, t)
        [] pc = "pfa" -> ProcessFieldAnswer(w, t)
        [] pc = "pfa_updated" -> FieldUpdated(w, t)
        [] pc = "pfa_completed" -> FormCompleted(w, t)
        [] pc = "pfa_error" -> FieldError(w, t)
        [] pc = "sam" -> SendAssistant(w, t)
        [] pc = "sam_audio_item" -> SendAssistantAudioItem(w, t)
        [] pc = "sm_emit" -> SendAssistantEmit(w, t)
        [] pc = "sm_tail" -> SendAssistantTail(w, t)
        [] pc = "recv_frame" -> ReceiveFrame(w, t)
        [] pc = "handle_event" -> HandleEvent(w, t)
        [] pc = "terminal_tail" -> TerminalTail(w, t)

\* The task runs until it awaits or has nothing left to do.
RECURSIVE Run(_, _)
Run(w, t) ==
    IF w.stacks[t] = <<>> THEN w
    ELSE LET r == Block(w, t) IN
           IF r.yield THEN r.w ELSE Run(r.w, t)

\* The task t calls the coroutine that starts at frame.
Call(w, t, frame) == Run([w EXCEPT !.stacks[t] = <<frame>>], t)

\* ------------------------------------------------- the form manager alone
\* Callers invoke the manager's operations in any order, for any
\* conversation, with any form name and answer.
NoCall == [op |-> "init", user |-> ""]

InitForm ==
    /\ active_sessions = [u \in Users |-> NoSession]
    /\ last = NoCall
    /\ bridge = NewBridge
    /\ lock = ""
    /\ stacks = NoStacks
    /\ upstream = NewUpstream
    /\ frontend = NewFrontend

CreateFormSession(u, name) ==
    LET r == create_form_session(active_sessions, u, name) IN
      /\ active_sessions' = r.store
      /\ last' = [op |-> "create_form_session", user |-> u, form_name |-> name,
                  result |-> r.session]

\* The call before this one: its name and, for a restart, the conversations
\* whose sessions it cleared.
Before ==
    [op |-> last.op,
     cleared |-> IF last.op = "restart_all_sessions" THEN last.cleared ELSE {}]

ProcessUserAnswer(u, a) ==
    LET r == process_user_answer(active_sessions, u, a) IN
      /\ active_sessions' = r.store
      /\ last' = [op |-> "process_user_answer", user |-> u, answer |-> a,
                  field |-> current_field(active_sessions[u]),
                  result |-> r.response,
                  after |-> Before]

ClearSession(u) ==
    LET r == clear_session(active_sessions, u) IN
      /\ active_sessions' = r.store
      /\ last' = [op |-> "clear_session", user |-> u, result |-> r.ok]

RestartAllSessions ==
    /\ active_sessions' = clear_all(active_sessions)
    /\ last' = [op |-> "restart_all_sessions", user |-> "", success |-> TRUE,
                cleared |-> {u \in DOMAIN active_sessions :
                               active_sessions[u] # NoSession}]

NextForm ==
    \/ \E u \in Users, name \in FormNames :
         CreateFormSession(u, name) /\ UNCHANGED bridge_vars
    \/ \E u \in Users, a \in Answers :
         ProcessUserAnswer(u, a) /\ UNCHANGED bridge_vars
    \/ \E u \in Users : ClearSession(u) /\ UNCHANGED bridge_vars
    \/ RestartAllSessions /\ UNCHANGED bridge_vars

SpecForm == InitForm /\ [][NextForm]_vars

\* ------------------------------------------- one conversation's answers
\* One conversation opens a form and answers its fields, with well-formed
\* and malformed answers for every field type.
AllAnswers ==
    Answers \cup {S_empty, S_Shishu, S_KISHOR_sp, S_Tarun, S_2p5,
                  S_date_short, S_date_plain, S_not_a_date, S_date_odd,
                  S_email_bad}

NextAnswer ==
    \/ \E name \in {"income", "aadhaar"} :
         CreateFormSession(BridgeUser, name) /\ UNCHANGED bridge_vars
    \/ \E a \in AllAnswers :
         ProcessUserAnswer(BridgeUser, a) /\ UNCHANGED bridge_vars

SpecAnswer == InitForm /\ [][NextAnswer]_vars

\* ---------------------------------------------------------- the bridge
\* One client connection (chat_ws) with its bridge, the upstream service and
\* the form store. The client task reads the client's messages one after
\* another; the receive task handles the upstream's events one after
\* another.
MaxUserMsgs == 3
MaxEvents == 2

T_ok == <<"o", "k">>
T_open_form ==
    <<"#", "#", "F", "O", "R", "M", ":", "a", "a", "d", "h", "a", "a", "r",
      "#", "#">>
T_value_date == L_form_value \o S_date \o L_hashes
T_value_email == L_form_value \o S_email \o L_hashes
T_question_answered == L_question_answered
\* A form's trigger word in plain text, without a marker.
T_trigger == <<"a", "a", "d", "h", "a", "a", "r">>

\* What the assistant says in a turn.
AssistantTexts ==
    {T_ok, T_open_form, T_value_date, T_value_email, T_question_answered,
     T_trigger}

\* The text deltas of a turn: plain text, or a marker the model writes.
DeltaTexts == {T_ok, T_question_answered}

AudioChunk == <<"A">>

TextItem(text) ==
    [audio_part |-> FALSE, audio |-> FALSE, saved |-> FALSE, text |-> text]

AudioItem(audio, saved, text) ==
    [audio_part |-> TRUE, audio |-> audio, saved |-> saved, text |-> text]

OutputItems ==
    {TextItem(text) : text \in AssistantTexts \cup {NoText}}
    \cup {AudioItem(TRUE, FALSE, NoText), AudioItem(FALSE, FALSE, T_ok),
          AudioItem(TRUE, TRUE, T_open_form)}

ContentParts ==
    {[type |-> "text", has_transcript |-> FALSE, text |-> T_value_date],
     [type |-> "audio", has_transcript |-> TRUE, text |-> T_open_form],
     [type |-> "audio", has_transcript |-> FALSE, text |-> NoText]}

\* The events the upstream may send for a turn. They carry the turn's
\* response_id, except response.done, which carries the response object
\* instead.
EventsOf(turn) ==
    {[type |-> "response.output_text.delta", rid |-> turn, turn |-> turn,
      delta |-> d] : d \in DeltaTexts}
    \cup {[type |-> "response.audio.delta", rid |-> turn, turn |-> turn,
           delta |-> AudioChunk]}
    \cup {[type |-> "response.output_item.done", rid |-> turn,
           turn |-> turn, item |-> i] : i \in OutputItems}
    \cup {[type |-> "response.content_part.done", rid |-> turn,
           turn |-> turn, part |-> p] : p \in ContentParts}
    \cup {[type |-> ty, rid |-> IF ty = "response.done" THEN 0 ELSE turn,
           turn |-> turn] : ty \in TerminalTypes}

World ==
    [b |-> bridge, store |-> active_sessions, lock |-> lock,
     stacks |-> stacks, up |-> upstream, fe |-> frontend, last |-> last]

Becomes(w) ==
    /\ bridge' = w.b
    /\ active_sessions' = w.store
    /\ lock' = w.lock
    /\ stacks' = w.stacks
    /\ upstream' = w.up
    /\ frontend' = w.fe
    /\ last' = w.last

Init == InitForm

\* chat_ws, a user_message: the text is acknowledged and handed to
\* send_user_message. A text is modelled by its place in the client's
\* submissions.
ClientCanSend ==
    /\ ~bridge.closing
    /\ stacks["client"] = <<>>
    /\ frontend.submitted < MaxUserMsgs

UserMessage(w0, n) ==
    Call(send_text([w0 EXCEPT !.fe.submitted = n], [type |-> "ack"]),
         "client",
         F("send_begin", [kind |-> "user_text", content |-> [seq |-> n]]))

ClientSendUserMessage ==
    /\ ClientCanSend
    /\ Becomes(UserMessage(World, frontend.submitted + 1))

\* chat_ws, a user_audio_message: playable says whether _process_audio_data
\* can turn the data into PCM.
UserAudio(w0, n, playable) ==
    Call(send_text([w0 EXCEPT !.fe.submitted = n], [type |-> "ack"]),
         "client",
         F("send_begin", [kind |-> "user_audio",
                          content |-> [seq |-> n, playable |-> playable]]))

ClientSendUserAudio(playable) ==
    /\ ClientCanSend
    /\ Becomes(UserAudio(World, frontend.submitted + 1, playable))

\* The turn the upstream is serving: turns are served one after another in
\* the order of their response.create frames.
ActiveTurn == upstream.ended + 1

\* _receiver_loop: the next event of the turn the upstream is serving; the
\* upstream sends at most max events.
CanReceive(e, max) ==
    /\ bridge.recv_task = "running"
    /\ stacks["recv"] = <<>>
    /\ ActiveTurn <= NumCreates(upstream.frames)
    /\ upstream.events < max
    /\ e.turn = ActiveTurn

Received(w0, e) ==
    Call([w0 EXCEPT !.up.events = @ + 1,
                    !.up.signals = IF e.type \in CompletionTypes
                                   THEN Append(@, e.turn) ELSE @],
         "recv", F("recv_frame", [e |-> e]))

Receive(e, max) ==
    /\ CanReceive(e, max)
    /\ Becomes(Received(World, e))

RecvEvent(e) == Receive(e, MaxEvents)

\* The upstream has nothing more to send for the turn it is serving.
UpstreamEndTurn ==
    /\ ActiveTurn <= NumCreates(upstream.frames)
    /\ upstream' = [upstream EXCEPT !.ended = @ + 1]
    /\ UNCHANGED <<active_sessions, last, bridge, lock, stacks, frontend>>

\* A task that awaits goes on: a send or an emit has finished, or the lock
\* it waits for is free.
CanResume(t) ==
    /\ stacks[t] # <<>>
    /\ Head(stacks[t]).pc = "send_wait_lock" => lock = ""

Resume(t) ==
    /\ CanResume(t)
    /\ Becomes(Run(World, t))

Next ==
    \/ ClientSendUserMessage
    \/ \E playable \in BOOLEAN : ClientSendUserAudio(playable)
    \/ \E e \in EventsOf(ActiveTurn) : RecvEvent(e)
    \/ UpstreamEndTurn
    \/ \E t \in Tasks : Resume(t)
    \/ RestartAllSessions /\ UNCHANGED bridge_vars

Spec == Init /\ [][Next]_vars

\* ------------------------------------------------ the bridge's connection
\* The bridge with settings that may lack the endpoint or the key, an
\* upstream that may refuse or drop a connection and may send a frame that
\* is not an object, and chat_ws closing the bridge when the client goes.
\* asyncio.CancelledError is a BaseException (Python 3.8 and later).
ConnSettings == {"ok", "no_endpoint", "no_key"}
ConnOutcomes == {"ok", "refuse", "drop", "drop_late"}

ConnEvents(turn) ==
    {[type |-> "response.output_item.done", rid |-> turn, turn |-> turn,
      item |-> TextItem(T_ok)],
     [type |-> "response.done", rid |-> 0, turn |-> turn],
     [type |-> "non_object", rid |-> 0, turn |-> turn],
     [type |-> "non_json", rid |-> 0, turn |-> turn]}

InitConn ==
    /\ active_sessions = [u \in Users |-> NoSession]
    /\ last = NoCall
    /\ \E s \in ConnSettings : bridge = [NewBridge EXCEPT !.settings = s]
    /\ lock = ""
    /\ stacks = NoStacks
    /\ \E c \in ConnOutcomes : upstream = [NewUpstream EXCEPT !.conn = c]
    /\ frontend = NewFrontend

\* The upstream starts to treat connections in another way.
UpstreamConn(c) ==
    /\ c # upstream.conn
    /\ upstream' = [upstream EXCEPT !.conn = c]
    /\ UNCHANGED <<active_sessions, last, bridge, lock, stacks, frontend>>

\* task.cancel() and the task taking the CancelledError: the receive task
\* leaves every frame (nothing in it catches a BaseException), and the lock
\* if it held it.
Cancelled(w) ==
    [w EXCEPT !.b.recv_task = "cancelled",
              !.stacks["recv"] = <<>>,
              !.lock = IF @ = "recv" THEN "" ELSE @]

\* AzureRealtimeBridge.close: await of a cancelled task raises
\* CancelledError, which 'except Exception' does not catch; await of a task
\* that has ended returns.
close(w) ==
    IF w.b.recv_task = "running"
    THEN Failed(Cancelled([w EXCEPT !.b.closing = TRUE]), "CancelledError")
    ELSE IF w.b.recv_task = "cancelled"
    THEN Failed([w EXCEPT !.b.closing = TRUE], "CancelledError")
    ELSE Ok([w EXCEPT !.b.closing = TRUE, !.b.ws = "none"])

Closed(w, c) ==
    Becomes([c.w EXCEPT !.last = [op |-> "close", user |-> BridgeUser,
                                  error |-> c.error,
                                  recv_task |-> w.b.recv_task,
                                  ws |-> w.b.ws,
                                  closing |-> w.b.closing]])

\* chat_ws, finally: the client is gone and the bridge is closed. (A caller
\* may close a bridge again.)
Close ==
    /\ stacks["client"] = <<>>
    /\ Closed(World, close(World))

NextConn ==
    \/ ClientSendUserMessage
    \/ \E playable \in BOOLEAN : ClientSendUserAudio(playable)
    \/ \E e \in ConnEvents(ActiveTurn) : RecvEvent(e)
    \/ UpstreamEndTurn
    \/ \E t \in Tasks : Resume(t)
    \/ \E c \in ConnOutcomes : UpstreamConn(c)
    \/ Close

SpecConn == InitConn /\ [][NextConn]_vars

\* ------------------------------------------------ chat_ws: client messages
\* The messages of a client that chat_ws does not hand to the bridge: text
\* that is not JSON, JSON that is not an object ("[]"), an unknown type, a
\* user_message or user_audio_message whose content or audio_data is empty
\* or is not a string (5), and a ping.
ClientMessages ==
    {"invalid_json", "non_object", "unknown_type", "empty_content",
     "non_string_content", "empty_audio", "non_string_audio", "ping"}

\* msg.get, content.strip and audio_data.strip raise AttributeError on a
\* value without the attribute.
RaisingMessages == {"non_object", "non_string_content", "non_string_audio"}

ErrorReason(kind) ==
    CASE kind = "invalid_json" -> "invalid_json"
      [] kind = "unknown_type" -> "unknown_event"
      [] kind = "empty_content" -> "empty_message"
      [] kind = "empty_audio" -> "empty_audio_data"

\* chat_ws, one message of the loop: a pong, an error event, or an exception
\* that leaves the loop: it is logged, the bridge is closed (finally) and
\* chat_ws returns, which ends the client's connection.
chat_ws_message(w, kind) ==
    IF kind = "ping" THEN send_text(w, [type |-> "pong"])
    ELSE IF kind \in RaisingMessages THEN close(w).w
    ELSE send_text(w, [type |-> "error", error |-> ErrorReason(kind)])

\* What the client got for the message: the event sent to it, and whether
\* its connection is still served.
ClientAnswered(w, w1, kind) ==
    [w1 EXCEPT !.last =
        [op |-> "client_message", user |-> BridgeUser, kind |-> kind,
         reply |-> IF kind \in RaisingMessages THEN [type |-> "none"]
                   ELSE w1.fe.last,
         open |-> ~w1.b.closing]]

ClientMessage(kind) ==
    /\ ~bridge.closing
    /\ stacks["client"] = <<>>
    /\ Becomes(ClientAnswered(World, chat_ws_message(World, kind), kind))

NextClient ==
    \/ ClientSendUserMessage
    \/ \E kind \in ClientMessages : ClientMessage(kind)
    \/ \E e \in ConnEvents(ActiveTurn) : RecvEvent(e)
    \/ UpstreamEndTurn
    \/ \E t \in Tasks : Resume(t)

SpecClient == Init /\ [][NextClient]_vars

\* ------------------------------------------------ the bridge fills a form
\* The assistant opens either form and submits values for its fields, right
\* ones and wrong ones, one consolidated message per turn; the client sends
\* its messages, and the sessions may be restarted at any time.
MaxFillEvents == 4

T_open_income ==
    <<"#", "#", "F", "O", "R", "M", ":", "i", "n", "c", "o", "m", "e",
      "#", "#">>
T_value_name == L_form_value \o S_dhruv \o L_hashes
T_value_category == L_form_value \o S_shishu \o L_hashes
T_value_amount == L_form_value \o S_25000 \o L_hashes

FillTexts ==
    {T_open_form, T_open_income, T_value_date, T_value_email, T_value_name,
     T_value_category, T_value_amount}

FillEvents(turn) ==
    {[type |-> "response.output_item.done", rid |-> turn, turn |-> turn,
      item |-> TextItem(text)] : text \in FillTexts}

NextFill ==
    \/ ClientSendUserMessage
    \/ \E e \in FillEvents(ActiveTurn) : Receive(e, MaxFillEvents)
    \/ UpstreamEndTurn
    \/ \E t \in Tasks : Resume(t)
    \/ RestartAllSessions /\ UNCHANGED bridge_vars

SpecFill == Init /\ [][NextFill]_vars

\* ------------------------------------------------ the events of a turn
\* The upstream sends, for the turn it serves, text deltas (every turn has
\* a text of its own), an item or a content part that carries the whole
\* message, and terminal events, in any order. last keeps the events that
\* were delivered.
MaxTurnEvents == 3

TurnDelta(turn) ==
    IF turn = 1 THEN <<"1">> ELSE IF turn = 2 THEN <<"2">> ELSE <<"3">>

DeltaChars == {"1", "2", "3"}

TurnEvents(turn) ==
    {[type |-> "response.output_text.delta", rid |-> turn, turn |-> turn,
      delta |-> TurnDelta(turn)],
     [type |-> "response.output_item.done", rid |-> turn, turn |-> turn,
      item |-> TextItem(T_ok)],
     [type |-> "response.content_part.done", rid |-> turn, turn |-> turn,
      part |-> [type |-> "text", has_transcript |-> FALSE, text |-> T_ok]],
     [type |-> "response.completed", rid |-> turn, turn |-> turn],
     [type |-> "response.done", rid |-> 0, turn |-> turn]}

Delivered == IF last.op = "turn" THEN last.delivered ELSE {}

Logged(w, events) ==
    [w EXCEPT !.last = [op |-> "turn", user |-> BridgeUser,
                        delivered |-> events]]

TurnClientSend ==
    /\ ClientCanSend
    /\ Becomes(Logged(UserMessage(World, frontend.submitted + 1), Delivered))

TurnReceive(e) ==
    /\ CanReceive(e, MaxTurnEvents)
    /\ Becomes(Logged(Received(World, e), Delivered \cup {e}))

TurnResume(t) ==
    /\ CanResume(t)
    /\ Becomes(Logged(Run(World, t), Delivered))

NextTurn ==
    \/ TurnClientSend
    \/ \E e \in TurnEvents(ActiveTurn) : TurnReceive(e)
    \/ UpstreamEndTurn
    \/ \E t \in Tasks : TurnResume(t)

SpecTurn == Init /\ [][NextTurn]_vars

\* ------------------------------------------------ the pending queue
\* The client sends texts and audio while turns are open, the assistant
\* answers with a text item, or with an audio item that opens a form and
\* gives the first field's value at once, and the upstream sends terminal
\* events. last keeps the turn of the event the receive task is handling
\* and, for every entry popped from the pending queue, that turn.
MaxQueueEvents == 3

T_open_and_value == T_open_form \o S_blank \o T_value_date

QueueEvents(turn) ==
    {[type |-> "response.output_item.done", rid |-> turn, turn |-> turn,
      item |-> TextItem(T_ok)],
     [type |-> "response.output_item.done", rid |-> turn, turn |-> turn,
      item |-> AudioItem(TRUE, TRUE, T_open_and_value)],
     [type |-> "response.output_text.done", rid |-> turn, turn |-> turn],
     [type |-> "response.done", rid |-> 0, turn |-> turn]}

Handling == IF last.op = "queue" THEN last.handling ELSE 0

Pops == IF last.op = "queue" THEN last.pops ELSE <<>>

\* The head of the queue q is gone in q1.
Popped(q, q1) == q # <<>> /\ q1 = Tail(q)

QueueLogged(w0, w, turn) ==
    [w EXCEPT !.last =
        [op |-> "queue", user |-> BridgeUser, handling |-> turn,
         pops |-> IF Popped(w0.b.pending_requests, w.b.pending_requests)
                  THEN Append(Pops, turn) ELSE Pops]]

QueueClientSend ==
    /\ ClientCanSend
    /\ Becomes(QueueLogged(World,
                           UserMessage(World, frontend.submitted + 1),
                           Handling))

QueueClientAudio(playable) ==
    /\ ClientCanSend
    /\ Becomes(QueueLogged(World,
                           UserAudio(World, frontend.submitted + 1, playable),
                           Handling))

QueueReceive(e) ==
    /\ CanReceive(e, MaxQueueEvents)
    /\ Becomes(QueueLogged(World, Received(World, e), e.turn))

QueueResume(t) ==
    /\ CanResume(t)
    /\ Becomes(QueueLogged(World, Run(World, t), Handling))

NextQueue ==
    \/ QueueClientSend
    \/ \E playable \in BOOLEAN : QueueClientAudio(playable)
    \/ \E e \in QueueEvents(ActiveTurn) : QueueReceive(e)
    \/ UpstreamEndTurn
    \/ \E t \in Tasks : QueueResume(t)

SpecQueue == Init /\ [][NextQueue]_vars

\* ------------------------------------------------------- the HTTP routes
\* The routes of the application: main.py includes the chat router under
\* /api, the router's own prefix is /chat, and it has the routes /restart
\* (POST) and /ws (websocket); main.py adds /health (GET). The static mounts
\* /forms and /static serve files under their own prefixes.
Routes ==
    {[method |-> "POST", path |-> "/api/chat/restart",
      endpoint |-> "restart_all_sessions"],
     [method |-> "WEBSOCKET", path |-> "/api/chat/ws", endpoint |-> "chat_ws"],
     [method |-> "GET", path |-> "/health", endpoint |-> "health"]}

HttpMethods == {"GET", "POST"}

HttpPaths == {"/api/chat", "/api/chat/restart", "/api/chat/ws", "/health"}

\* What a request submits: its media type, and its text or its file's name.
HttpBodies ==
    {[media_type |-> "text", content |-> "Hello"],
     [media_type |-> "image", content |-> "test.png"],
     [media_type |-> "audio", content |-> "sample.wav"]}

\* The route an HTTP request is handed to: [status, endpoint]. A path that
\* no HTTP route has is answered 404, a path whose routes take other methods
\* 405; a websocket route takes no HTTP request.
route(method, path) ==
    LET http == {r \in Routes : r.method \in HttpMethods /\ r.path = path}
        full == {r \in http : r.method = method}
    IN  IF http = {} THEN [status |-> 404, endpoint |-> ""]
        ELSE IF full = {} THEN [status |-> 405, endpoint |-> ""]
        ELSE [status |-> 200, endpoint |-> (CHOOSE r \in full : TRUE).endpoint]

\* The response [status, messages] to a routed request: restart_all_sessions
\* and health answer with an object that has no messages.
Respond(method, path, body, r) ==
    /\ active_sessions' = IF r.endpoint = "restart_all_sessions"
                          THEN clear_all(active_sessions)
                          ELSE active_sessions
    /\ last' = [op |-> "http_request", user |-> "", method |-> method,
                path |-> path, body |-> body, status |-> r.status,
                messages |-> <<>>]

HttpRequest(method, path, body) ==
    Respond(method, path, body, route(method, path))

NextHttp ==
    \/ \E u \in Users, name \in {"income", "aadhaar"} :
         CreateFormSession(u, name) /\ UNCHANGED bridge_vars
    \/ \E u \in Users, a \in {S_dhruv, S_date} :
         ProcessUserAnswer(u, a) /\ UNCHANGED bridge_vars
    \/ \E method \in HttpMethods, path \in HttpPaths, body \in HttpBodies :
         HttpRequest(method, path, body) /\ UNCHANGED bridge_vars

SpecHttp == InitForm /\ [][NextHttp]_vars

\* ------------------------------------- the realtime connection manager
\* services/azure_realtime.py: one RealtimeConnectionManager (_manager)
\* serves every caller of generate_assistant_reply and
\* stream_assistant_reply. Here bridge holds the manager's fields, lock its
\* _lock, stacks the callers' coroutines, upstream the connections made so
\* far, and last the reply the last call returned.
MaxPrompts == 3
MaxExchangeEvents == 2

Callers == {"a", "b"}
PromptModes == {"send_prompt", "stream_prompt"}
PromptTexts == {S_blank, S_dhruv}
PromptDeltas == {<<>>, <<" ">>, <<"o">>}

\* RealtimeConnectionManager.__init__: ws is the number of the manager's
\* websocket among upstream.conns, 0 for None.
NewManager == [ws |-> 0]

\* No connection yet; calls counts the calls made, broken tells whether the
\* last exchange that ended, ended without response.done.
NoConnections == [conns |-> <<>>, calls |-> 0, broken |-> FALSE]

\* The ways websockets.connect and the first send can go, and the events of
\* an exchange: frames of the upstream, the end of the iteration when the
\* connection is closed normally (closed_ok), the exception it raises when
\* the connection is lost (closed_error), and the timeout.
ConnectOutcomes == {"ok", "refuse", "drop"}

ExchangeEvents ==
    {[type |-> "response.output_text.delta", delta |-> d] : d \in PromptDeltas}
    \cup {[type |-> x] : x \in {"response.tool_calls", "non_json",
                                "non_object", "response.done", "closed_ok",
                                "closed_error", "timeout"}}

\* RealtimeConnectionManager._ensure_connection: [m, up, error]. An idle
\* websocket is closed and dropped; a new connection is made when there is
\* none or it is closed, and session.update is its first frame. When the
\* connection is refused the manager keeps what it had; when it is dropped
\* before session.update is sent the manager keeps the dropped websocket.
_ensure_connection(m, up, idle, outcome) ==
    LET expired == m.ws # 0 /\ idle
        m1 == IF expired THEN [m EXCEPT !.ws = 0] ELSE m
        up1 == IF expired THEN [up EXCEPT !.conns[m.ws].closed = TRUE] ELSE up
        n == Len(up.conns) + 1
    IN  IF m1.ws # 0 /\ ~up1.conns[m1.ws].closed
        THEN [m |-> m1, up |-> up1, error |-> ""]
        ELSE IF outcome = "refuse"
        THEN [m |-> m1, up |-> up1, error |-> "connect failed"]
        ELSE IF outcome = "drop"
        THEN [m |-> [m1 EXCEPT !.ws = n],
              up |-> [up1 EXCEPT !.conns =
                         Append(@, [closed |-> TRUE, frames |-> <<>>])],
              error |-> "ConnectionClosed"]
        ELSE [m |-> [m1 EXCEPT !.ws = n],
              up |-> [up1 EXCEPT !.conns =
                         Append(@, [closed |-> FALSE,
                                    frames |-> <<"session.update">>])],
              error |-> ""]

InitRealtime ==
    /\ active_sessions = [u \in Users |-> NoSession]
    /\ last = NoCall
    /\ bridge = NewManager
    /\ lock = ""
    /\ stacks = [c \in Callers |-> <<>>]
    /\ upstream = NoConnections
    /\ frontend = NewFrontend

\* generate_assistant_reply / stream_assistant_reply return result to the
\* caller c; the manager is left as m and the connections as up. The lock
\* is left with the async with block.
Returns(c, mode, result, outcome, m, up) ==
    /\ last' = [op |-> "reply", user |-> c, mode |-> mode, result |-> result,
                outcome |-> outcome, call |-> up.calls]
    /\ bridge' = m
    /\ upstream' = [up EXCEPT !.broken =
                       IF outcome = "done" THEN FALSE
                       ELSE IF outcome \in {"failed", "timeout", "closed"}
                       THEN TRUE ELSE @]
    /\ lock' = IF lock = c THEN "" ELSE lock
    /\ stacks' = [stacks EXCEPT ![c] = <<>>]
    /\ UNCHANGED <<active_sessions, frontend>>

\* send_prompt / stream_prompt from the lock to the exchange:
\* _ensure_connection stands outside the try, so what it raises leaves
\* send_prompt and generate_assistant_reply answers "" for it; a
\* response.create that cannot be sent is caught inside: the websocket is
\* closed and dropped and "" is returned.
SendPromptLocked(c, a, up0, idle, outcome, sent) ==
    LET r == _ensure_connection(bridge, up0, idle, outcome) IN
      IF r.error # ""
      THEN Returns(c, a.mode, <<>>, "unavailable", r.m, r.up)
      ELSE IF ~sent
      THEN Returns(c, a.mode, <<>>, "failed", [r.m EXCEPT !.ws = 0],
                   [r.up EXCEPT !.conns[r.m.ws].closed = TRUE])
      ELSE /\ bridge' = r.m
           /\ upstream' = [r.up EXCEPT !.conns[r.m.ws].frames =
                              Append(@, "response.create")]
           /\ lock' = c
           /\ stacks' = [stacks EXCEPT ![c] =
                            <<F("sp_exchange",
                                [mode |-> a.mode, parts |-> <<>>,
                                 events |-> 0])>>]
           /\ UNCHANGED <<active_sessions, last, frontend>>

\* generate_assistant_reply(text) / stream_assistant_reply(text): "" for a
\* blank text; else send_prompt / stream_prompt, which waits for the lock
\* when another exchange holds it.
Prompt(c, mode, text, idle, outcome, sent) ==
    /\ stacks[c] = <<>>
    /\ upstream.calls < MaxPrompts
    /\ IF Strip(text) = <<>>
       THEN Returns(c, mode, <<>>, "empty", bridge,
                    [upstream EXCEPT !.calls = @ + 1])
       ELSE IF lock # ""
       THEN /\ stacks' = [stacks EXCEPT ![c] =
                             <<F("sp_wait_lock",
                                 [mode |-> mode, text |-> text])>>]
            /\ upstream' = [upstream EXCEPT !.calls = @ + 1]
            /\ UNCHANGED <<active_sessions, last, bridge, lock, frontend>>
       ELSE SendPromptLocked(c, [mode |-> mode, text |-> text],
                             [upstream EXCEPT !.calls = @ + 1],
                             idle, outcome, sent)

\* A waiting send_prompt gets the lock.
LockAcquired(c, idle, outcome, sent) ==
    /\ stacks[c] # <<>>
    /\ Head(stacks[c]).pc = "sp_wait_lock"
    /\ lock = ""
    /\ SendPromptLocked(c, Head(stacks[c]).a, upstream, idle, outcome, sent)

\* The exchange goes on by one step.
Exchanging(c, a, parts) ==
    /\ a.events < MaxExchangeEvents
    /\ stacks' = [stacks EXCEPT ![c] =
                     <<F("sp_exchange", [a EXCEPT !.parts = parts,
                                                  !.events = @ + 1])>>]
    /\ UNCHANGED <<active_sessions, last, bridge, lock, upstream, frontend>>

\* send_prompt / stream_prompt inside asyncio.timeout: one turn of
\* 'async for raw in ws'. Deltas that are not empty are collected; a frame
\* that is not JSON is skipped; other events are passed over (stream_prompt
\* hands deltas and tool calls to callbacks whose errors it swallows);
\* response.done ends the exchange. A connection closed normally ends the
\* iteration without an exception, and the text collected so far is
\* returned as the reply. An exception (a lost connection, a frame that is
\* JSON but no object, the timeout) closes and drops the websocket and
\* returns "".
Exchange(c, ev) ==
    /\ stacks[c] # <<>>
    /\ Head(stacks[c]).pc = "sp_exchange"
    /\ LET a == Head(stacks[c]).a
           dropped == [bridge EXCEPT !.ws = 0]
           closed == [upstream EXCEPT !.conns[bridge.ws].closed = TRUE]
       IN  IF ev.type = "response.output_text.delta"
           THEN Exchanging(c, a, IF ev.delta # <<>>
                                 THEN Append(a.parts, ev.delta) ELSE a.parts)
           ELSE IF ev.type \in {"response.tool_calls", "non_json"}
           THEN Exchanging(c, a, a.parts)
           ELSE IF ev.type = "response.done"
           THEN Returns(c, a.mode, Strip(Join(a.parts)), "done",
                        bridge, upstream)
           ELSE IF ev.type = "closed_ok"
           THEN Returns(c, a.mode, Strip(Join(a.parts)), "closed",
                        bridge, closed)
           ELSE IF ev.type = "timeout"
           THEN Returns(c, a.mode, <<>>, "timeout", dropped, closed)
           ELSE Returns(c, a.mode, <<>>, "failed", dropped, closed)

\* The server closes the connection while no exchange uses it.
ServerCloses ==
    /\ lock = ""
    /\ bridge.ws # 0
    /\ ~upstream.conns[bridge.ws].closed
    /\ upstream' = [upstream EXCEPT !.conns[bridge.ws].closed = TRUE]
    /\ UNCHANGED <<active_sessions, last, bridge, lock, stacks, frontend>>

NextRealtime ==
    \/ \E c \in Callers, mode \in PromptModes, text \in PromptTexts,
          idle \in BOOLEAN, outcome \in ConnectOutcomes, sent \in BOOLEAN :
         Prompt(c, mode, text, idle, outcome, sent)
    \/ \E c \in Callers, idle \in BOOLEAN, outcome \in ConnectOutcomes,
          sent \in BOOLEAN :
         LockAcquired(c, idle, outcome, sent)
    \/ \E c \in Callers, ev \in ExchangeEvents : Exchange(c, ev)
    \/ ServerCloses

SpecRealtime == InitRealtime /\ [][NextRealtime]_vars

\* ------------------------------------------------------ the marker codec
\* The extractors alone, applied to assistant texts in which markers stand
\* alone, side by side, and one inside another.
Markers == {T_open_form, T_value_date, T_question_answered}

Inserted(outer, k, inner) ==
    SubSeq(outer, 1, k) \o inner \o SubSeq(outer, k + 1, Len(outer))

CodecTexts ==
    {a \o sep \o b : a \in Markers \cup {T_ok, S_blank},
                     sep \in {<<>>, S_blank}, b \in Markers \cup {T_ok}}
    \cup UNION {{Inserted(outer, k, inner) :
                   k \in 0..Len(outer), inner \in Markers} :
                outer \in Markers}

Patterns == {"form", "value", "qa"}

\* The orders in which the three extractors can be applied; the bridge
\* applies them in CodeOrder.
CodeOrder == <<"form", "value", "qa">>

Orders ==
    {o \in [1..3 -> Patterns] : \A p \in Patterns : \E i \in 1..3 : o[i] = p}

\* The extractor of one marker.
Extractor(pat, text) ==
    CASE pat = "form" -> _extract_form_from_text(text)
      [] pat = "value" -> _extract_form_value_from_text(text)
      [] pat = "qa" -> _extract_question_answered_from_text(text)

\* What the extractors, applied in order, leave and find:
\* [text, form_name, form_value, question_answered].
Extracted(order, rs) ==
    LET of(p) == rs[CHOOSE i \in 1..3 : order[i] = p] IN
      [text |-> rs[3].text,
       form_name |-> of("form").value,
       form_value |-> of("value").value,
       form_found |-> of("form").found,
       value_found |-> of("value").found,
       question_answered |-> of("qa").found]

ExtractThird(order, r1, r2) ==
    Extracted(order, <<r1, r2, Extractor(order[3], r2.text)>>)

ExtractSecond(order, r1) ==
    ExtractThird(order, r1, Extractor(order[2], r1.text))

ExtractInOrder(order, text) ==
    ExtractSecond(order, Extractor(order[1], text))

InitCodec == InitForm

\* The extractors are applied to one text in one order.
Extract(text, order) ==
    /\ last.op = "init"
    /\ last' = [op |-> "extract", user |-> "", text |-> text,
                order |-> order, result |-> ExtractInOrder(order, text)]
    /\ UNCHANGED <<active_sessions, bridge, lock, stacks, upstream, frontend>>

NextCodec == \E text \in CodecTexts, order \in Orders : Extract(text, order)

SpecCodec == InitCodec /\ [][NextCodec]_vars

\* ------------------------------------------------------ bridge: claims
\* How often x occurs in seq.
Occurrences(seq, x) == Cardinality({i \in 1..Len(seq) : seq[i] = x})

Turns == 1..NumCreates(upstream.frames)

\* C1: for every upstream turn, whatever completion signals arrive for it and
\* in whatever order, the client is sent at most one consolidated
\* assistant_message or audio_message.
C1_OneConsolidatedMessagePerTurn ==
    \A k \in Turns : Occurrences(frontend.consolidated, k) <= 1

\* C1 witness: a turn for which two completion signals were handled and one
\* consolidated message was sent.
C1_Witness ==
    \E k \in Turns :
       /\ Occurrences(upstream.signals, k) >= 2
       /\ Occurrences(frontend.consolidated, k) = 1

\* The queue entry that corresponds to a send operation's message.
Corresponds(entry, kind, content) ==
    \/ kind = "user_text" /\ entry = [type |-> "user_text_message",
                                      content |-> content]
    \/ kind = "user_audio" /\ entry = [type |-> "user_audio_message",
                                       audio_data |-> content]
    \/ kind = "system" /\ entry = [type |-> "system_message",
                                   content |-> content]

\* C2: a send operation called while ai_responding is true sends no frame
\* upstream and appends exactly one entry, the one for its message, to the
\* tail of the pending queue.
C2_BusySendIsQueued ==
    (last.op = "send" /\ last.busy)
    => /\ last.frames_after = last.frames_before
       /\ Len(last.queue_after) = Len(last.queue_before) + 1
       /\ SubSeq(last.queue_after, 1, Len(last.queue_before))
            = last.queue_before
       /\ Corresponds(last.queue_after[Len(last.queue_after)], last.kind,
                      last.content)

\* C2 witness: a system message queued behind an entry already waiting.
C2_Witness ==
    /\ last.op = "send" /\ last.busy
    /\ last.kind = "system"
    /\ last.queue_before # <<>>

\* A turn is open from its response.create until a completion signal for it
\* has been handled or the upstream has stopped serving it.
OpenTurns ==
    {k \in Turns : /\ Occurrences(upstream.signals, k) = 0
                   /\ k > upstream.ended}

\* C3: in every interleaving of the client task and the receive task at most
\* one upstream turn is open: no response.create is sent before the turn of
\* the previous one has completed.
C3_AtMostOneOpenTurn == Cardinality(OpenTurns) <= 1

\* The user messages in the frames sent upstream / in the pending queue.
SentUserSeqs ==
    [i \in {j \in 1..Len(upstream.frames) :
              /\ upstream.frames[j].type = "conversation.item.create"
              /\ upstream.frames[j].role = "user"}
       |-> upstream.frames[i].content.seq]

QueuedUserSeqs ==
    {(IF bridge.pending_requests[i].type = "user_text_message"
      THEN bridge.pending_requests[i].content.seq
      ELSE bridge.pending_requests[i].audio_data.seq) :
        i \in {j \in 1..Len(bridge.pending_requests) :
                 bridge.pending_requests[j].type
                    \in {"user_text_message", "user_audio_message"}}}

\* C4: a queued user message is sent upstream at most once, the user
\* messages are sent in the order the client submitted them, and none is
\* sent while an earlier one is still queued.
C4_QueuedUserMessagesInOrder ==
    /\ \A i, j \in DOMAIN SentUserSeqs :
         i < j => SentUserSeqs[i] < SentUserSeqs[j]
    /\ \A i \in DOMAIN SentUserSeqs, m \in QueuedUserSeqs :
         m > SentUserSeqs[i]

\* ------------------------------------------------- form manager: claims
Cursor(u) == active_sessions[u].current_field_index

AnswerFailed(call) ==
    call.op = "process_user_answer" /\ ~call.result.success

ValidationFailed(call) ==
    AnswerFailed(call) /\ "field" \in DOMAIN call.result

AnswerSucceeded(call) ==
    call.op = "process_user_answer" /\ call.result.success

\* C5: a process_user_answer call that fails leaves every session (cursor
\* and completed_fields) as it was; the cursor of an existing session moves
\* up only in a call whose answer the validator accepted for the current field.
C5_InvalidAnswerChangesNothing ==
    [][ /\ AnswerFailed(last') => active_sessions' = active_sessions
        /\ \A u \in Users :
             (active_sessions[u] # NoSession
              /\ active_sessions'[u].current_field_index > Cursor(u))
             => /\ AnswerSucceeded(last') /\ last'.user = u
                /\ _validate_and_convert_value(last'.field, last'.answer)
                     # PyNone ]_vars

\* C5 witness: a rejected answer to the second field of a session.
C5_Witness ==
    /\ ValidationFailed(last)
    /\ Cursor(last.user) = 1
    /\ DOMAIN active_sessions[last.user].completed_fields # {}

\* C6: a field's id is a key of completed_fields iff the field's position is
\* below current_field_index.
C6_CompletedIffBelowCursor ==
    \A u \in Users :
      LET session == active_sessions[u] IN
        session # NoSession =>
          \A i \in 1..Len(session.fields) :
            (session.fields[i].id \in DOMAIN session.completed_fields)
              <=> (i - 1 < session.current_field_index)

\* C6 witness: a session with answered and unanswered fields.
C6_Witness ==
    \E u \in Users :
      /\ active_sessions[u] # NoSession
      /\ 0 < Cursor(u)
      /\ Cursor(u) < Len(active_sessions[u].fields)

\* C7: within one session (no create_form_session for the conversation in
\* the step) the cursor stays or goes up by exactly 1, and it is always
\* within 0..len(fields).
C7_CursorMonotone ==
    [][ \A u \in Users :
          /\ (active_sessions[u] # NoSession /\ active_sessions'[u] # NoSession
              /\ ~(last'.op = "create_form_session" /\ last'.user = u))
             => active_sessions'[u].current_field_index
                  \in {Cursor(u), Cursor(u) + 1}
          /\ active_sessions'[u] # NoSession
             => active_sessions'[u].current_field_index
                  \in 0..Len(active_sessions'[u].fields) ]_vars

\* C7 witness: the last field was just answered, the cursor is len(fields).
C7_Witness ==
    /\ AnswerSucceeded(last)
    /\ Cursor(last.user) = Len(active_sessions[last.user].fields)
    /\ Cursor(last.user) = 3

\* C8 as claimed: once the last field is answered successfully the session
\* is no longer in the store.
C8_CompletedSessionRemoved ==
    (AnswerSucceeded(last) /\ last.result.form_progress.is_complete)
      => get_active_session(active_sessions, last.user) = NoSession

\* C9: create_form_session with an unknown form name returns none and leaves
\* the store as it was; with a known name it registers (and returns) a
\* session of that form at cursor 0 with no values, in place of any prior
\* session of the conversation, other conversations untouched.
C9_CreateFormSession ==
    [][ last'.op = "create_form_session" =>
          IF load_form_schema(last'.form_name) = NoSchema
          THEN last'.result = NoSession /\ active_sessions' = active_sessions
          ELSE /\ active_sessions'[last'.user] = last'.result
               /\ last'.result.current_field_index = 0
               /\ DOMAIN last'.result.completed_fields = {}
               /\ last'.result.fields = load_form_schema(last'.form_name).fields
               /\ \A u \in Users \ {last'.user} :
                    active_sessions'[u] = active_sessions[u] ]_vars

\* C9 witness: an unknown form name while the conversation has a session
\* with an answered field.
C9_Witness ==
    /\ last.op = "create_form_session"
    /\ last.result = NoSession
    /\ active_sessions[last.user] # NoSession
    /\ Cursor(last.user) > 0

\* C10 as claimed: a validation failure names the field (id and label), gives
\* a reason, and for a field with options carries those options.
C10_ErrorCarriesOptions ==
    ValidationFailed(last) =>
      /\ last.result.field.id = last.field.id
      /\ last.result.field.label = last.field.label
      /\ last.result.error # ""
      /\ last.field.options # NoOptions =>
           /\ "options" \in DOMAIN last.result.field
           /\ last.result.field.options = last.field.options

\* --------------------------------------------------- validation: claims
\* The answer of the last call, trimmed.
Trimmed(call) == Strip(call.answer)

\* The options that equal x when case is ignored.
OptionsLike(options, x) ==
    {i \in 1..Len(options) : Lower(options[i]) = Lower(x)}

AnsweredField(call, type) ==
    call.op = "process_user_answer" /\ call.field.type = type

\* C11: an answer to an enumerated field is accepted exactly when, trimmed, it
\* equals one of the options ignoring case, and the value then stored in
\* completed_fields is that option as the option list spells it.
C11_OptionStoredAsSpelled ==
    (AnsweredField(last, "select") /\ last.field.options # NoOptions)
    => /\ last.result.success
            <=> OptionsLike(last.field.options, Trimmed(last)) # {}
       /\ last.result.success =>
            \E i \in OptionsLike(last.field.options, Trimmed(last)) :
               /\ active_sessions[last.user].completed_fields[last.field.id]
                     = PyStr(last.field.options[i])
               /\ last.result.completed_field.value
                     = PyStr(last.field.options[i])

\* C11 witness: an option typed in another casing, with blanks around it, is
\* accepted.
C11_Witness ==
    /\ AnsweredField(last, "select")
    /\ last.result.success
    /\ last.answer = S_KISHOR_sp
    /\ active_sessions[last.user].completed_fields[last.field.id]
          = PyStr(S_Kishor)

\* YYYY-MM-DD: four digits, a hyphen, two digits, a hyphen, two digits.
IsYearMonthDay(x) ==
    /\ Len(x) = 10
    /\ x[5] = "-" /\ x[8] = "-"
    /\ \A i \in {1, 2, 3, 4, 6, 7, 9, 10} : x[i] \in Digits

\* C12 as claimed: an answer to a date field is accepted exactly when it has
\* the format YYYY-MM-DD.
C12_DateIsYearMonthDay ==
    AnsweredField(last, "date")
    => (last.result.success <=> IsYearMonthDay(Trimmed(last)))

\* -------------------------------------------------------- codec: claims
\* C13 as claimed: whatever the order in which the three extractors are
\* applied to a text, the cleaned text, the form name, the form value and
\* the question-answered flag are the same.
C13_ExtractionOrderIndependent ==
    last.op = "extract"
    => \A order \in Orders :
          ExtractInOrder(order, last.text) = last.result

\* No marker found, the text as it was.
NothingExtracted(text) ==
    [text |-> text, form_name |-> NoText, form_value |-> NoText,
     form_found |-> FALSE, value_found |-> FALSE,
     question_answered |-> FALSE]

\* C14 as claimed: the extractors, applied again (in the bridge's order) to
\* the text they have stripped, find no marker and leave the text as it is.
C14_StrippingIdempotent ==
    (last.op = "extract" /\ last.order = CodeOrder)
    => ExtractInOrder(CodeOrder, last.result.text)
          = NothingExtracted(last.result.text)

\* ------------------------------------------------- bridge: claims, contd.
\* The text of the payload the client was sent last, where the client
\* displays it: a delta, or the content of a consolidated message.
Displayed ==
    IF frontend.last.type = "assistant_delta" THEN frontend.last.delta
    ELSE IF IsConsolidated(frontend.last) THEN frontend.last.content
    ELSE <<>>

HasMarker(text) ==
    \/ _extract_form_from_text(text).found
    \/ _extract_form_value_from_text(text).found
    \/ _extract_question_answered_from_text(text).found

\* C15: no text the bridge sends to the client for display (the delta of an
\* assistant_delta, the content of an assistant_message or audio_message)
\* contains a form-activation, form-value or question-answered marker.
C15_NoMarkerDisplayed == ~HasMarker(Displayed)

\* The words that name a form (_get_form_url), as they occur in plain text.
HasTrigger(text) ==
    \E n \in DOMAIN FormNameText, i \in 1..Len(text) :
       StartsWithAt(Lower(text), i, FormNameText[n])

\* C16: an assistant text with a form trigger word and no form-activation
\* marker still opens a form: the assistant message built from it carries
\* the form's reference. (The content of a message is the text without its
\* markers, so a trigger word in the content stood outside every marker.)
C16_KeywordFallback ==
    (frontend.last.type = "assistant_message"
     /\ HasTrigger(frontend.last.content))
    => frontend.last.form # ""

\* The event of a turn that carries a text item with the question-answered
\* marker and no form-value marker.
QuestionEvent(turn) ==
    [type |-> "response.output_item.done", rid |-> turn, turn |-> turn,
     item |-> TextItem(T_question_answered)]

SessionUpdates(frames) ==
    Cardinality({i \in 1..Len(frames) : frames[i].type = "session.update"})

Instructions(frames) ==
    Cardinality({i \in 1..Len(frames) :
                   frames[i].type = "conversation.item.create"
                   /\ frames[i].kind = "instructions"})

\* A step in which a send operation has called ensure_connected: it has left
\* the lock taken or an error raised.
SendStep ==
    /\ NumItems(upstream'.frames) = NumItems(upstream.frames) + 1

\* C18: ensure_connected is idempotent: a send operation that finds the
\* websocket open opens no other, sends no second session.update or
\* system instructions and starts no other receive task; and a websocket
\* that is open always has a running receive task.
C18_EnsureConnectedIdempotent ==
    /\ [](bridge.ws = "open" => bridge.recv_task = "running")
    /\ [][(bridge.ws = "open" /\ SendStep)
           => /\ SessionUpdates(upstream'.frames)
                   = SessionUpdates(upstream.frames)
              /\ Instructions(upstream'.frames)
                   = Instructions(upstream.frames)
              /\ bridge'.ws = bridge.ws
              /\ bridge'.recv_task = bridge.recv_task]_vars

\* The connection the next ensure_connected attempts cannot be made.
ConnFails ==
    /\ bridge.ws # "open"
    /\ bridge.settings # "ok" \/ upstream.conn # "ok"

\* A step in which the client task has begun a send operation that gets as
\* far as ensure_connected (audio that cannot be processed does not).
ClientSends ==
    /\ frontend'.submitted = frontend.submitted + 1
    /\ last'.op = "send"
    /\ last'.kind = "user_audio" => last'.content.playable

\* C19: when the endpoint or the key is not configured, or the connection
\* or the handshake fails, a send operation raises to its caller (chat_ws
\* sends the client an error event), sends no response.create, leaves
\* ai_responding false and adds nothing to the pending queue.
C19_FailedConnectSurfaces ==
    [][(ConnFails /\ ClientSends)
       => /\ frontend'.last.type = "error"
          /\ stacks'["client"] = <<>>
          /\ NumCreates(upstream'.frames) = NumCreates(upstream.frames)
          /\ NumItems(upstream'.frames) = NumItems(upstream.frames)
          /\ ~bridge'.ai_responding
          /\ bridge'.pending_requests = bridge.pending_requests
          /\ lock' = ""]_vars

\* A send operation has just failed on a handshake the upstream dropped
\* after session.update: the client has the error, and no item or
\* response.create follows the session.update.
C19_Witness ==
    /\ last.op = "send"
    /\ last.frames_before = 0
    /\ frontend.last.type = "error"
    /\ frontend.last.error = "ConnectionClosed"
    /\ bridge.ws = "closed"
    /\ upstream.frames = <<[type |-> "session.update"]>>
    /\ ~bridge.ai_responding
    /\ bridge.pending_requests = <<>>

\* C20: close() always returns without raising and leaves the receive task
\* cancelled (or none) and the websocket cleared, whether or not a receive
\* task was running; a second close() changes nothing.
C20_CloseCompletes ==
    /\ [](last.op = "close"
           => /\ last.error = ""
              /\ bridge.ws = "none"
              /\ bridge.recv_task # "running")
    /\ [][(last'.op = "close" /\ last'.closing /\ last' # last)
           => /\ bridge' = bridge
              /\ UNCHANGED <<active_sessions, lock, stacks, upstream,
                              frontend>>]_vars

\* C21: when the receive loop has ended on an exception, the next send
\* operation connects again and starts a new receive loop.
C21_SendRestartsReceiveLoop ==
    [][(bridge.recv_task = "done" /\ SendStep)
       => bridge'.recv_task = "running"]_vars

\* A frame of a turn that is not JSON.
NonJsonEvent(turn) == [type |-> "non_json", rid |-> 0, turn |-> turn]

\* C22: a frame that cannot be parsed is skipped: the bridge's fields (the
\* buffers, the flags, the queue) stay as they were, nothing is sent to the
\* client, and the receive loop is ready for the next frame.
C22_UnparseableFrameSkipped ==
    [][(/\ upstream'.events = upstream.events + 1
        /\ RecvEvent(NonJsonEvent(ActiveTurn)))
       => /\ bridge' = bridge
          /\ frontend' = frontend
          /\ upstream'.frames = upstream.frames
          /\ UNCHANGED <<active_sessions, lock, stacks>>
          /\ bridge'.recv_task = "running"
          /\ stacks'["recv"] = <<>>]_vars

\* The first turn's only frame so far was one that is not JSON: the turn is
\* still awaited, the client has nothing but its ack, the loop runs.
C22_Witness ==
    /\ upstream.events = 1
    /\ NumCreates(upstream.frames) = 1
    /\ upstream.ended = 0
    /\ upstream.signals = <<>>
    /\ bridge.recv_task = "running"
    /\ bridge.ai_responding
    /\ bridge.current_response_id = 0
    /\ frontend.last.type = "ack"
    /\ stacks["recv"] = <<>>

\* ------------------------------------------------------ chat_ws: claims
\* C23: every rejected or malformed client message (invalid JSON, JSON that
\* is not an object, an unknown type, empty or non-string content or
\* audio_data) is answered with an error event that carries a reason, and
\* the client's connection stays open for further messages.
C23_MalformedMessageAnswered ==
    (last.op = "client_message" /\ last.kind # "ping")
    => /\ last.reply.type = "error"
       /\ last.reply.error # ""
       /\ last.open

\* C24: the first event a client is sent is {type: "ready"}, before any
\* ack, delta or message.
C24_ReadyFirst == frontend.first \in {"none", "ready"}

\* ---------------------------------------------------- restart: claims
\* C25: a restart succeeds and leaves no session, whether or not there were
\* any, so a restart after a restart changes nothing; and a
\* process_user_answer that follows a restart returns the failure of no
\* active session and stores nothing.
C25_AnswerAfterRestartFails ==
    /\ [](last.op = "restart_all_sessions"
           => /\ last.success
              /\ \A u \in Users : active_sessions[u] = NoSession)
    /\ [](last.op = "process_user_answer"
           /\ last.after.op = "restart_all_sessions"
           => /\ last.result = NoActiveSession
              /\ \A u \in Users : active_sessions[u] = NoSession)

\* A conversation whose session a restart has cleared has answered.
C25_Witness ==
    /\ last.op = "process_user_answer"
    /\ last.after.op = "restart_all_sessions"
    /\ last.user \in last.after.cleared
    /\ last.result = NoActiveSession

\* C26: a form_completed event is emitted exactly once for a form session, by
\* the submission that moves the cursor to the field count, and its form_data
\* maps every field id of the form to the value stored for it. The
\* submission that completes the form is the one after which
\* _process_field_answer has its form_completed event to send; it sends it
\* before it does anything else, and the event is sent at no other time.
BridgeSession == active_sessions[BridgeUser]

FieldIds(session) == {session.fields[i].id : i \in 1..Len(session.fields)}

Completes ==
    /\ BridgeSession # NoSession
    /\ active_sessions'[BridgeUser] # NoSession
    /\ active_sessions'[BridgeUser].fields = BridgeSession.fields
    /\ ~is_complete(BridgeSession)
    /\ is_complete(active_sessions'[BridgeUser])

\* _process_field_answer has sent the form_field_update of a completing
\* answer and has not gone on yet.
CompletionPending ==
    /\ stacks["recv"] # <<>>
    /\ Head(stacks["recv"]).pc = "pfa_updated"
    /\ Head(stacks["recv"]).a.result.form_progress.is_complete

FormCompletedSent ==
    /\ frontend'.last # frontend.last
    /\ frontend'.last.type = "form_completed"

C26_FormCompletedOnce ==
    [][/\ Completes <=> (~CompletionPending /\ CompletionPending')
       /\ FormCompletedSent <=> (CompletionPending /\ ~CompletionPending')
       /\ FormCompletedSent /\ BridgeSession # NoSession
             => /\ is_complete(BridgeSession)
                /\ frontend'.last.form_data = BridgeSession.completed_fields
                /\ DOMAIN frontend'.last.form_data
                      = FieldIds(BridgeSession)]_vars

\* The three-field form is completed and the client has its form_completed
\* event.
C26_Witness ==
    /\ frontend.last.type = "form_completed"
    /\ BridgeSession # NoSession
    /\ BridgeSession.form_id = "formIncome"
    /\ DOMAIN frontend.last.form_data = FieldIds(BridgeSession)
    /\ BridgeSession.current_field_index = 3

\* C27: a POST to /api/chat with a text, image or audio message returns
\* status 200 and exactly two messages: the user's message (content the
\* submitted text or file name, type the submitted media type), then an
\* assistant message whose content starts with 'Echo:'.
L_Echo == <<"E", "c", "h", "o", ":">>

C27_ChatPostEchoes ==
    (last.op = "http_request" /\ last.method = "POST"
       /\ last.path = "/api/chat")
      => /\ last.status = 200
         /\ Len(last.messages) = 2
         /\ last.messages[1].role = "user"
         /\ last.messages[1].content = last.body.content
         /\ last.messages[1].type = last.body.media_type
         /\ last.messages[2].role = "assistant"
         /\ Len(last.messages[2].content) >= Len(L_Echo)
         /\ SubSeq(last.messages[2].content, 1, Len(L_Echo)) = L_Echo

\* C28: a text delta is forwarded to the client as assistant_delta only if
\* the turn is not producing audio: once an audio delta of the current turn
\* has been received (the audio buffer, emptied when a turn begins, holds
\* it), later text deltas of the turn are buffered but not forwarded.
C28_TextDeltaHiddenDuringAudio ==
    [][(bridge.audio_buffer # <<>>
          /\ bridge'.current_response_id = bridge.current_response_id
          /\ Len(bridge'.response_buffer) > Len(bridge.response_buffer))
         => ~(frontend'.last # frontend.last
                /\ frontend'.last.type = "assistant_delta")]_vars

\* C29: when an event with a new turn identifier arrives the text buffer and
\* the audio buffer are reset: what the text buffer holds are deltas of the
\* bridge's current turn, and a consolidated message made of buffered deltas
\* has none of another turn's.
C29_BuffersResetOnNewTurn ==
    /\ \A i \in 1..Len(bridge.response_buffer) :
         bridge.response_buffer[i] = TurnDelta(bridge.current_response_id)
    /\ frontend.last.type = "assistant_message"
         => \A i \in 1..Len(frontend.last.content) :
              frontend.last.content[i] \in DeltaChars
                => <<frontend.last.content[i]>>
                     = TurnDelta(frontend.last.turn)

\* C30: if a turn delivers both an item or content-part completion that
\* carries text and a terminal event, in either order, the consolidated
\* message of the turn carries the completion's text, not the buffered
\* deltas.
CompletionTexts(turn) ==
    {_extract_conversational_content_only(e.item.text) :
       e \in {d \in Delivered : d.turn = turn
                 /\ d.type = "response.output_item.done"}}
    \cup {_extract_conversational_content_only(e.part.text) :
             e \in {d \in Delivered : d.turn = turn
                       /\ d.type = "response.content_part.done"}}

TerminalDelivered(turn) ==
    \E d \in Delivered : d.turn = turn /\ d.type \in TerminalTypes

C30_CompletionPayloadWins ==
    (/\ frontend.last.type = "assistant_message"
     /\ CompletionTexts(frontend.last.turn) # {}
     /\ TerminalDelivered(frontend.last.turn))
      => frontend.last.content \in CompletionTexts(frontend.last.turn)

\* C31: for each completed upstream turn at most one entry is popped from
\* the pending queue, also when several completion signals arrive for the
\* turn or the turn ends with nothing emitted, and an entry is popped only
\* while ai_responding is false.
C31_OnePopPerTurn ==
    [][/\ \A k \in Turns' : Occurrences(Pops', k) <= 1
       /\ Popped(bridge.pending_requests, bridge'.pending_requests)
            => ~bridge'.ai_responding]_vars

\* C32: every entry placed in the pending queue is popped and dispatched in
\* time: the queue does not stay non-empty while no turn is open, also when
\* a popped entry sends nothing. When both tasks are idle and the upstream
\* has completed every turn it was asked for, nothing is left that would
\* pop an entry, so the queue is empty then.
TurnCompleted(k) == Occurrences(upstream.signals, k) >= 1

NoTurnOpen ==
    /\ stacks["client"] = <<>>
    /\ stacks["recv"] = <<>>
    /\ \A k \in Turns : TurnCompleted(k)

C32_QueueDrains == NoTurnOpen => bridge.pending_requests = <<>>

\* C33: dispatching a dequeued entry does not loop: a popped entry is not put
\* back on the queue (ai_responding is false when it is popped and is read
\* again before the dispatch awaits anything), and one step of a task pops
\* at most one entry. Whenever the queue changes, either its head is gone
\* or entries were added at its end.
IsPrefix(q, q1) == Len(q) <= Len(q1) /\ SubSeq(q1, 1, Len(q)) = q

C33_PoppedEntryNotRequeued ==
    [][bridge'.pending_requests # bridge.pending_requests
         => \/ IsPrefix(bridge.pending_requests, bridge'.pending_requests)
            \/ /\ bridge.pending_requests # <<>>
               /\ bridge'.pending_requests = Tail(bridge.pending_requests)]_vars

\* An entry was popped while another waited behind it, and its dispatch
\* opened the second turn.
C33_Witness ==
    /\ Pops = <<1>>
    /\ NumCreates(upstream.frames) = 2
    /\ Len(bridge.pending_requests) = 1
    /\ stacks["recv"] = <<>>

\* C34: upstream sends are serialized by the send lock: the
\* conversation.item.create frame of a send operation is followed at once
\* by the response.create frame of the same operation, and every
\* response.create frame directly follows the item of its operation; no
\* frame of another send or of a handshake comes between the two.
IsSendItem(frame) ==
    frame.type = "conversation.item.create" /\ frame.kind # "instructions"

C34_SendFramesAdjacent ==
    \A i \in 1..Len(upstream.frames) :
       /\ (IsSendItem(upstream.frames[i]) /\ i < Len(upstream.frames))
            => /\ upstream.frames[i + 1].type = "response.create"
               /\ upstream.frames[i + 1].op = upstream.frames[i].op
       /\ upstream.frames[i].type = "response.create"
            => /\ i > 1
               /\ IsSendItem(upstream.frames[i - 1])
               /\ upstream.frames[i - 1].op = upstream.frames[i].op

\* One task has sent its item and holds the lock while the other task's send
\* operation waits for the lock.
C34_Witness ==
    \E t \in Tasks, u \in Tasks :
       /\ t # u
       /\ lock = t
       /\ stacks[t] # <<>> /\ stacks[t][1].pc = "send_item_sent"
       /\ stacks[u] # <<>> /\ stacks[u][1].pc = "send_wait_lock"

\* C35: a submission that fails validation during an active form session
\* produces exactly one form_field_error event and exactly one recovery
\* system message (sent upstream or put on the pending queue), and leaves
\* the session as it was. _process_field_answer stands after its
\* form_field_error event exactly when a submission has just failed; when it
\* goes on from there, the recovery message is sent, queued or waiting for
\* the send lock.
ErrorPending ==
    /\ stacks["recv"] # <<>>
    /\ Head(stacks["recv"]).pc = "pfa_error"
    /\ "field" \in DOMAIN Head(stacks["recv"]).a.result

FieldErrorSent ==
    /\ frontend'.last # frontend.last
    /\ frontend'.last.type = "form_field_error"

IsRecovery(content) ==
    "kind" \in DOMAIN content /\ content.kind = "validation_error"

RecoverySent ==
    /\ Len(upstream'.frames) > Len(upstream.frames)
    /\ \E i \in (Len(upstream.frames) + 1)..Len(upstream'.frames) :
          /\ IsSendItem(upstream'.frames[i])
          /\ upstream'.frames[i].kind = "system"
          /\ IsRecovery(upstream'.frames[i].content)

RecoveryQueued ==
    /\ Len(bridge'.pending_requests) = Len(bridge.pending_requests) + 1
    /\ LET request == bridge'.pending_requests[Len(bridge'.pending_requests)]
       IN  request.type = "system_message" /\ IsRecovery(request.content)

RecoveryWaits ==
    /\ stacks'["recv"] # <<>>
    /\ Head(stacks'["recv"]).pc = "send_wait_lock"
    /\ IsRecovery(Head(stacks'["recv"]).a.content)

C35_ValidationFailureRecovers ==
    [][/\ (~ErrorPending /\ ErrorPending')
            => /\ frontend'.last.type = "form_field_error"
               /\ active_sessions' = active_sessions
       /\ (ErrorPending /\ stacks'["recv"] # stacks["recv"])
            => /\ RecoverySent \/ RecoveryQueued \/ RecoveryWaits
               /\ active_sessions' = active_sessions]_vars

\* C36: creating a session, submitting an answer or clearing the session for
\* one conversation identity changes the session of no other identity,
\* whether the call succeeds or fails.
SessionCalls == {"create_form_session", "process_user_answer", "clear_session"}

C36_OtherSessionsUntouched ==
    [][last'.op \in SessionCalls
         => \A u \in Users \ {last'.user} :
               active_sessions'[u] = active_sessions[u]]_vars

\* The session of u1 is cleared while u2 is in the middle of a form.
C36_Witness ==
    /\ last.op = "clear_session" /\ last.user = "u1" /\ last.result
    /\ active_sessions["u2"] # NoSession
    /\ active_sessions["u2"].current_field_index > 0
    /\ ~is_complete(active_sessions["u2"])

\* C37: ai_responding does not stay true without an open turn. When the
\* upstream has delivered a terminal event for every response it was asked
\* to create and the sender and the receive loop have run to the end of
\* what they had to do, nothing is left that would clear the flag, so it is
\* false then.
AllTurnsTerminated ==
    /\ stacks["client"] = <<>>
    /\ stacks["recv"] = <<>>
    /\ \A k \in Turns : TerminalDelivered(k)

C37_FlagClearWhenNoTurnOpen == AllTurnsTerminated => ~bridge.ai_responding

\* C38: every field-prompt system message that goes upstream asks for the
\* field that is the session's current field when it is dispatched; a
\* prompt for a field that has been answered in the meantime is not sent.
IsFieldPrompt(frame) ==
    /\ IsSendItem(frame)
    /\ frame.kind = "system"
    /\ "kind" \in DOMAIN frame.content
    /\ frame.content.kind = "field_prompt"

C38_PromptAsksCurrentField ==
    [][\A i \in (Len(upstream.frames) + 1)..Len(upstream'.frames) :
          IsFieldPrompt(upstream'.frames[i])
             => /\ BridgeSession # NoSession
                /\ upstream'.frames[i].content.prompt
                     = get_next_field_prompt(BridgeSession)]_vars

\* C39: the bridge's form flags agree with the store: _form_session_active
\* is true only if the store holds a session for the bridge's user_id that
\* is not complete, and _awaiting_field_answer is true only if
\* _form_session_active is.
C39_FlagsAgreeWithStore ==
    /\ bridge.form_session_active
         => BridgeSession # NoSession /\ ~is_complete(BridgeSession)
    /\ bridge.awaiting_field_answer => bridge.form_session_active

\* C40: the connection manager serializes prompts and recovers from
\* failure: at most one exchange uses the websocket at a time; an exchange
\* that ends without response.done (an error, a closed connection, the
\* timeout) returns the empty string and leaves the manager without a
\* websocket; and the exchange that follows one that ended so runs on a new
\* connection whose first frame is session.update.
InExchange(c) == stacks[c] # <<>> /\ Head(stacks[c]).pc = "sp_exchange"

ExchangeStarts(c) ==
    /\ ~InExchange(c)
    /\ stacks'[c] # <<>>
    /\ Head(stacks'[c]).pc = "sp_exchange"

ExchangeFails(c) ==
    /\ InExchange(c)
    /\ stacks'[c] = <<>>
    /\ last'.outcome # "done"

\* The manager has no websocket it would use again.
Discarded == bridge.ws = 0 \/ upstream.conns[bridge.ws].closed

C40_ManagerSerializesAndRecovers ==
    [][\A c \in Callers :
          /\ InExchange(c) => lock = c
          /\ ExchangeFails(c)
               => last'.result = <<>> /\ Discarded'
          /\ (ExchangeStarts(c) /\ upstream.broken)
               => /\ Len(upstream'.conns) = Len(upstream.conns) + 1
                  /\ bridge'.ws = Len(upstream'.conns)
                  /\ upstream'.conns[bridge'.ws].frames
                       = <<"session.update", "response.create">>]_vars

====
